---- MODULE Spec2Model ----
(***************************************************************************)
(* Sovereign RMM: the server's agent sessions, its task routes, and the     *)
(* agent's scheduled-task runner.                                          *)
(*                                                                         *)
(* Server: the agent WebSocket endpoint with its connection registry       *)
(* (active_connections), the agent check-in, the Redis "push_commands"     *)
(* channel with its single listener, the task routes (create, dispatch,    *)
(* cancel, result stubs) and the task_result handler.                      *)
(* Agent: the task cache tasks.json, the frames schedule_task and          *)
(* cancel_task, the trigger rules, the pre-run check and                   *)
(* local_task_runner.                                                      *)
(* Every await of the source that lets another coroutine run is a boundary *)
(* between two actions.                                                    *)
(***************************************************************************)
EXTENDS Integers, Sequences, FiniteSets, TLC

\* ---- bounds ------------------------------------------------------------
MaxSessions == 2      \* WebSocket connections opened in one run
MaxPublish  == 2      \* envelopes published on push_commands in one run

\* ---- program constants and input domains -------------------------------
CLOSE_BAD_TOKEN == 4003
AGENT_TOKEN == "tok"
Tokens      == {"tok", "bad"}
Devices     == {"d1", "d2"}
Sessions    == 1..MaxSessions
NoSession   == 0
\* the text frames an agent can send: the three handled types, a type the
\* loop ignores, a task_result without task_id, and a frame that is not JSON.
\* The rows that task_result and log frames insert are not part of the state.
Frames      == {"heartbeat", "task_result", "log", "unknown",
                "task_result_no_id", "malformed"}

VARIABLES
    status,              \* Device.status per device id; "absent" = no row
    active_connections,  \* the dict device_id -> WebSocket, in insertion order
    pc,                  \* position of each agent_websocket coroutine
    path_device,         \* the {device_id} path parameter of each connection
    query_token,         \* the token query parameter of each connection
    ws_open,             \* the connection's transport is open
    close_code,          \* code of the close frame the server sent (0 = none)
    unregistered,        \* times line 98 (pop) ran for the connection
    last_registered,     \* per device, the connection registered last
    connections,         \* number of connections opened so far
    bus,                 \* messages of push_commands not yet read by the listener
    published,           \* number of envelopes published so far
    listener,            \* state of listen_for_push_commands
    written,             \* frames written to agent sockets, in write order
    tasks,               \* the tasks table: task id -> row, NoTask = no row
    task_results,        \* the task_results table, rows in insertion order
    push_log,            \* envelopes the task routes handed to redis.publish
    request,             \* position of the task route coroutine per task
    tasks_file,          \* the agent's tasks.json: list of cached task records
    runner,              \* state of the agent's local_task_runner coroutine
    now,                 \* the agent's clock (datetime.utcnow), in clock units
    server_up,           \* the server answers the agent's HTTP requests
    srv_cancelled,       \* task ids the server has recorded as cancelled
    executions,          \* per task id, executions the runner has started
    skipped,             \* task ids a pre-run check has found cancelled
    agent_pc,            \* position of the agent's main()
    attempts,            \* check-in attempts main() has made without an answer
    checked_in,          \* the agent programs whose main() has completed a check-in
    timer,               \* clock value at which the runner's sleep or execution ends
    cron_out,            \* what task_is_due found for the cron task at its last poll
    policy,              \* the agent's policy dict
    battery,             \* the reading get_battery() returned at the last heartbeat
    heartbeat_delay,     \* seconds the heartbeat loop sleeps after its last heartbeat
    exec_out,            \* the result dict of the last execute_task call, with its inputs
    program,             \* the agent program that holds the WebSocket, "none" before it connects
    inbox,               \* frames the server sent that the receive loop has not taken yet
    receive_pc,          \* position of the receive loop
    running,             \* number of run_task subprocesses that are executing
    file_state,          \* tasks.json on disk: "complete", "truncated" or "partial"
    writing,             \* the list a save_tasks call in progress is writing
    crashed,             \* old and new list of the save_tasks call the last crash interrupted
    policies,            \* the policies table, rows in insertion order
    policy_req,          \* the PUT /default requests between their select and their commit
    state_file,          \* state.json: the dict of the persisted keys
    network,             \* what get_network_info() returns at present
    watcher_network,     \* last_network of event_task_watcher
    reprobe_owed,        \* a disconnect or an observed network change has happened since the last selection
    selection,           \* the last call of select_server_ip: its inputs and what it returned
    used_ip,             \* the address of the last connect or pre-run check, with its user
    checkin_reply        \* the answer of the last check-in with its policy

vars == <<status, active_connections, pc,
          path_device, query_token, ws_open, close_code,
          unregistered, last_registered,
          connections, bus, published, listener, written,
          tasks, task_results, push_log, request,
          tasks_file, runner, now, server_up, srv_cancelled,
          executions, skipped, agent_pc,
          attempts, checked_in, timer, cron_out, policy, battery,
          heartbeat_delay, exec_out, program, inbox, receive_pc, running,
          file_state, writing, crashed, policies, policy_req, state_file,
          network, watcher_network, reprobe_owed, selection, used_ip,
          checkin_reply>>

db_vars      == <<status>>
session_vars == <<pc, path_device, query_token, ws_open, close_code,
                  unregistered, last_registered, connections>>
push_vars    == <<bus, published, listener, written>>
task_vars    == <<tasks, task_results, push_log, request>>
agent_vars   == <<tasks_file, runner, now, server_up, srv_cancelled,
                  executions, skipped, agent_pc>>

\* ---- the variables of the units, and for each unit the ones it leaves alone
unit_vars == <<attempts, checked_in, timer, cron_out, policy, battery,
               heartbeat_delay, exec_out, program, inbox, receive_pc,
               running, file_state, writing, crashed, policies, policy_req,
               state_file, network, watcher_network, reprobe_owed, selection,
               used_ip, checkin_reply>>
checkin_vars == <<attempts, checked_in>>
clock_vars == <<timer>>
cron_vars == <<cron_out>>
heartbeat_vars == <<policy, battery, heartbeat_delay>>
exec_vars == <<exec_out>>
loop_vars == <<program, inbox, receive_pc, running>>
cache_vars == <<file_state, writing, crashed>>
policy_db_vars == <<policies, policy_req>>
selector_vars == <<state_file, network, watcher_network, reprobe_owed,
                   selection, used_ip>>
checkin_policy_vars == <<checkin_reply>>
not_checkin_vars == <<timer, cron_out, policy, battery, heartbeat_delay,
                      exec_out, program, inbox, receive_pc, running,
                      file_state, writing, crashed, policies, policy_req,
                      state_file, network, watcher_network, reprobe_owed,
                      selection, used_ip, checkin_reply>>
not_clock_vars == <<attempts, checked_in, cron_out, policy, battery,
                    heartbeat_delay, exec_out, program, inbox, receive_pc,
                    running, file_state, writing, crashed, policies,
                    policy_req, state_file, network, watcher_network,
                    reprobe_owed, selection, used_ip, checkin_reply>>
not_cron_vars == <<attempts, checked_in, timer, policy, battery,
                   heartbeat_delay, exec_out, program, inbox, receive_pc,
                   running, file_state, writing, crashed, policies,
                   policy_req, state_file, network, watcher_network,
                   reprobe_owed, selection, used_ip, checkin_reply>>
not_heartbeat_vars == <<attempts, checked_in, timer, cron_out, exec_out,
                        program, inbox, receive_pc, running, file_state,
                        writing, crashed, policies, policy_req, state_file,
                        network, watcher_network, reprobe_owed, selection,
                        used_ip, checkin_reply>>
not_exec_vars == <<attempts, checked_in, timer, cron_out, policy, battery,
                   heartbeat_delay, program, inbox, receive_pc, running,
                   file_state, writing, crashed, policies, policy_req,
                   state_file, network, watcher_network, reprobe_owed,
                   selection, used_ip, checkin_reply>>
not_loop_vars == <<attempts, checked_in, timer, cron_out, policy, battery,
                   heartbeat_delay, exec_out, file_state, writing, crashed,
                   policies, policy_req, state_file, network,
                   watcher_network, reprobe_owed, selection, used_ip,
                   checkin_reply>>
not_cache_vars == <<attempts, checked_in, timer, cron_out, policy, battery,
                    heartbeat_delay, exec_out, program, inbox, receive_pc,
                    running, policies, policy_req, state_file, network,
                    watcher_network, reprobe_owed, selection, used_ip,
                    checkin_reply>>
not_policy_db_vars == <<attempts, checked_in, timer, cron_out, policy,
                        battery, heartbeat_delay, exec_out, program, inbox,
                        receive_pc, running, file_state, writing, crashed,
                        state_file, network, watcher_network, reprobe_owed,
                        selection, used_ip, checkin_reply>>
not_selector_vars == <<attempts, checked_in, timer, cron_out, policy,
                       battery, heartbeat_delay, exec_out, program, inbox,
                       receive_pc, running, file_state, writing, crashed,
                       policies, policy_req, checkin_reply>>
not_checkin_policy_vars == <<attempts, checked_in, timer, cron_out, policy,
                             battery, heartbeat_delay, exec_out, program,
                             inbox, receive_pc, running, file_state, writing,
                             crashed, policies, policy_req, state_file,
                             network, watcher_network, reprobe_owed,
                             selection, used_ip>>
not_loop_heartbeat_vars == <<attempts, checked_in, timer, cron_out, exec_out,
                             file_state, writing, crashed, policies,
                             policy_req, state_file, network,
                             watcher_network, reprobe_owed, selection,
                             used_ip, checkin_reply>>
\* ---- end of the unit variables

\* ---- Python dict, kept as its entries in insertion order ----------------
DictHas(d, k)  == \E i \in DOMAIN d : d[i].k = k
\* a lookup that returns the connection registered first, whatever its key
DictGetFirst(d, k) == d[1].v
DictGet(d, k)  == d[CHOOSE i \in DOMAIN d : d[i].k = k].v
DictValues(d)  == [i \in DOMAIN d |-> d[i].v]
DictPop(d, k)  == SelectSeq(d, LAMBDA e : e.k # k)

DictAppend(d, k, v) == Append(d, [k |-> k, v |-> v])

\* d[k] = v : an existing key keeps its place and gets the new value
DictSet(d, k, v) ==
    IF DictHas(d, k)
    THEN [i \in DOMAIN d |-> IF d[i].k = k THEN [k |-> k, v |-> v] ELSE d[i]]
    ELSE Append(d, [k |-> k, v |-> v])

Registered(s) == \E i \in DOMAIN active_connections : active_connections[i].v = s

\* ---- Device Store -------------------------------------------------------
KeepStatus(st, d, value) == st

\* UPDATE devices SET status = ... WHERE device_id = ... : no row, no change
update_device_status(st, d, value) ==
    IF st[d] = "absent" THEN st ELSE [st EXCEPT ![d] = value]

handle_heartbeat(st, d) ==
    IF st[d] = "absent" THEN st ELSE [st EXCEPT ![d] = "online"]

\* ---- token check of the WebSocket endpoint ------------------------------
AnyToken(token) == TRUE

TokenOk(token) == token = AGENT_TOKEN

\* ---- which frames make the loop body raise -------------------------------
\* json.loads raises on a frame that is not JSON; the commit of a TaskResult
\* without task_id (nullable=False) raises
Raises(frame) == frame \in {"malformed", "task_result_no_id"}

NoMsg == [seq |-> 0, device_id |-> "none", holder |-> NoSession]

\* the listener between two messages
Idle == [pc |-> "listening", msg |-> NoMsg, snap |-> <<>>, pending |-> <<>>]

\* ---- tasks and task results (models.py, routes/tasks.py) -----------------
MaxRows == 2          \* rows of task_results in one run

TaskIds == {"t1"}
None    == "None"
\* Device.platform, reported by the agent at check-in
platform == [d \in Devices |-> IF d = "d1" THEN "windows" ELSE "android"]
DeviceStatuses == {"absent", "online", "offline"}
\* the devices table in primary-key order
DeviceRows == <<"d1", "d2">>

TriggerTypes == {"now", "once", "interval", "cron", "event"}
\* the target fields of a POST /tasks body
TargetSpecs ==
    [target_type : {"device"}, target_id : Devices \cup {None},
     target_platform : {"all"}]
    \cup [target_type : {"all"}, target_id : {None},
          target_platform : {"all", "windows"}]

NoTask == [status |-> "none", cancelled |-> FALSE, trigger_type |-> None,
           target_type |-> None, target_id |-> None, target_platform |-> None]

\* Task(... status="pending"); cancelled defaults to False
NewTask(target, trigger) ==
    [status |-> "pending", cancelled |-> FALSE, trigger_type |-> trigger,
     target_type |-> target.target_type, target_id |-> target.target_id,
     target_platform |-> target.target_platform]

\* the data of a task_result frame; stdout and stderr by their length in bytes
ResultData == {[exit_code |-> 0, stdout |-> 0, stderr |-> 0],
               [exit_code |-> 0, stdout |-> 64 * 1024, stderr |-> 16 * 1024],
               [exit_code |-> 1, stdout |-> 64 * 1024 + 1,
                stderr |-> 16 * 1024 + 1]}

\* TaskResult(task_id, device_id, status="running", progress=0)
StubRow(t, d) ==
    [task_id |-> t, device_id |-> d, status |-> "running", progress |-> 0,
     exit_code |-> None, stdout |-> 0, stderr |-> 0]

\* ---- the agent's task cache and triggers (agent) ------------------------
MaxTime == 3          \* the agent's clock runs from 0 to MaxTime
MaxRuns == 2          \* executions the runner starts per task id

CachedIds == {"t1", "t2"}
NoTime    == -1       \* a missing scheduled_at or last_run
AnyDay    == -1       \* the weekday field "*" of a cron expression
Day       == 4        \* clock units of timedelta(days=1)
NoCron    == [at |-> NoTime, weekday |-> AnyDay]

\* a task record as schedule_task and the check-in response carry it; a cron
\* expression is its hour:minute as offset into the day and its weekday
CachedTask(id, trigger, at, interval, cron) ==
    [task_id |-> id, trigger_type |-> trigger, scheduled_at |-> at,
     interval_seconds |-> interval, cron_expression |-> cron,
     last_run |-> NoTime, cancelled |-> FALSE]

NoRecord == CachedTask(None, None, NoTime, 0, NoCron)

\* the definitions the server sends in this model
AgentDefs == {CachedTask("t1", "once", 1, 0, NoCron),
              CachedTask("t2", "interval", NoTime, 2, NoCron)}
\* the scheduled_tasks lists of a check-in response
SeedLists == {<<>>}
             \cup {<<a>> : a \in AgentDefs}
             \cup {q \in {<<a, b>> : a \in AgentDefs, b \in AgentDefs} :
                     q[1] # q[2]}

add_or_update_task(file, task) ==
    Append(SelectSeq(file, LAMBDA r : r.task_id # task.task_id), task)

remove_task(file, task_id) == SelectSeq(file, LAMBDA r : r.task_id # task_id)

cancel_task_local(file, task_id) ==
    [i \in DOMAIN file |-> IF file[i].task_id = task_id
                           THEN [file[i] EXCEPT !.cancelled = TRUE]
                           ELSE file[i]]

\* t["last_run"] = datetime.utcnow() on the record of task_id
set_last_run(file, task_id, t) ==
    [i \in DOMAIN file |-> IF file[i].task_id = task_id
                           THEN [file[i] EXCEPT !.last_run = t]
                           ELSE file[i]]

\* datetime.weekday() of the day of clock value t; day 0 is a Monday
Weekday(t) == (t \div Day) % 7

\* the candidate of cron_next_run at clock value t, NoTime for None
cron_next_run(expr, t) ==
    IF expr.at = NoTime THEN NoTime
    ELSE LET today     == (t \div Day) * Day + expr.at
             candidate == IF today <= t THEN today + Day ELSE today
         IN IF expr.weekday = AnyDay THEN candidate
            ELSE candidate + ((expr.weekday - Weekday(candidate)) % 7) * Day

task_is_due(task, t) ==
    CASE task.trigger_type = "now"  -> TRUE
      [] task.trigger_type = "once" ->
           task.scheduled_at # NoTime /\ t >= task.scheduled_at
      [] task.trigger_type = "interval" ->
           task.last_run = NoTime \/ t - task.last_run >= task.interval_seconds
      [] task.trigger_type = "cron" ->
           LET next_run == cron_next_run(task.cron_expression, t) IN
           /\ next_run # NoTime
           /\ t >= next_run
           /\ (task.last_run = NoTime \/ task.last_run < next_run)
      [] OTHER -> FALSE

\* the answer to GET /api/dashboard/tasks/{id}: the task's definition with
\* its cancelled flag, or no answer while the server is unreachable
PreRunResponse(task_id) ==
    IF ~server_up THEN "exception"
    ELSE IF task_id \in srv_cancelled THEN "cancelled" ELSE "active"

OnlyWhenConfirmed(response) == response = "active"

\* 200 with cancelled=true is the only answer that stops the run
check_task_still_active(response) == response # "cancelled"

\* local_task_runner between two ticks
Sleeping == [pc |-> "sleeping", task |-> NoRecord, checked |-> None,
             rest |-> <<>>]

InitAgent ==
    /\ tasks_file = <<>>
    /\ runner = Sleeping
    /\ now = 0
    /\ server_up = TRUE
    /\ srv_cancelled = {}
    /\ executions = [t \in CachedIds |-> 0]
    /\ skipped = {}
    /\ agent_pc = "starting"

\* the sessions, the registry and the push channel after startup
InitSessions ==
    /\ active_connections = <<>>
    /\ pc = [s \in Sessions |-> "idle"]
    /\ path_device = [s \in Sessions |-> "none"]
    /\ query_token = [s \in Sessions |-> "none"]
    /\ ws_open = [s \in Sessions |-> FALSE]
    /\ close_code = [s \in Sessions |-> 0]
    /\ unregistered = [s \in Sessions |-> 0]
    /\ last_registered = [d \in Devices |-> NoSession]
    /\ connections = 0
    /\ bus = <<>>
    /\ published = 0
    /\ listener = [Idle EXCEPT !.pc = "sleeping"]
    /\ written = <<>>

\* empty tasks and task_results tables, no task request in flight
InitTaskStore ==
    /\ tasks = [t \in TaskIds |-> NoTask]
    /\ task_results = <<>>
    /\ push_log = <<>>
    /\ request = [t \in TaskIds |-> "none"]

\* ---- the agent's check-in policy and battery ----------------------------
\* the module-level dict "policy" of the agent
DefaultPolicy ==
    [checkin_plugged_seconds        |-> 30,
     checkin_battery_100_80_seconds |-> 60,
     checkin_battery_79_50_seconds  |-> 180,
     checkin_battery_49_20_seconds  |-> 300,
     checkin_battery_19_10_seconds  |-> 600,
     checkin_battery_9_0_seconds    |-> 900]

NoLevel == -1             \* get_battery() found no battery: level None
Levels  == 0..100

\* what get_battery() returns
Reading(level, charging) == [level |-> level, charging |-> charging]

\* dict.update
DictUpdate(d, data) ==
    [k \in DOMAIN d \cup DOMAIN data |-> IF k \in DOMAIN data THEN data[k]
                                         ELSE d[k]]

StrictBands(pol, b) ==
    IF b.charging \/ b.level = NoLevel THEN pol["checkin_plugged_seconds"]
    ELSE IF b.level > 80 THEN pol["checkin_battery_100_80_seconds"]
    ELSE IF b.level > 50 THEN pol["checkin_battery_79_50_seconds"]
    ELSE IF b.level > 20 THEN pol["checkin_battery_49_20_seconds"]
    ELSE IF b.level > 10 THEN pol["checkin_battery_19_10_seconds"]
    ELSE pol["checkin_battery_9_0_seconds"]

get_checkin_interval(pol, b) ==
    IF b.charging \/ b.level = NoLevel THEN pol["checkin_plugged_seconds"]
    ELSE IF b.level >= 80 THEN pol["checkin_battery_100_80_seconds"]
    ELSE IF b.level >= 50 THEN pol["checkin_battery_79_50_seconds"]
    ELSE IF b.level >= 20 THEN pol["checkin_battery_49_20_seconds"]
    ELSE IF b.level >= 10 THEN pol["checkin_battery_19_10_seconds"]
    ELSE pol["checkin_battery_9_0_seconds"]

\* ---- state.json and the choice of the server address --------------------
SERVER_IP_LOCAL == "RMM_LOCAL_IP"
SERVER_IP_VPN   == "RMM_VPN_IP"

\* 7*24*3600 s in clock units
WEEK == 7 * Day

\* what get_network_info() returns on the two networks of the device
HomeNet  == [local_ip |-> "10.0.0.5", ssid |-> "home"]
CafeNet  == [local_ip |-> "172.16.3.9", ssid |-> "cafe"]
Networks == {HomeNet, CafeNet}

\* state.json as the dict state_load() returns; {} when the file is missing
EmptyState == [k \in {} |-> ""]

state_get(file, k, default) == IF k \in DOMAIN file THEN file[k] ELSE default

state_set(file, k, v) == DictUpdate(file, [x \in {k} |-> v])

RetestByAgeOnly(file, t) ==
    LET last == state_get(file, "last_ip_test", NoTime) IN
    last # NoTime /\ t - last > WEEK

\* last_ip_test "" or missing is NoTime
should_retest(file, t) ==
    LET last == state_get(file, "last_ip_test", NoTime) IN
    IF last = NoTime THEN TRUE ELSE t - last > WEEK

FallbackFirst(local_ok, vpn_ok) ==
    IF vpn_ok THEN SERVER_IP_VPN
    ELSE IF local_ok THEN SERVER_IP_LOCAL
    ELSE ""

\* the if / elif of the two ping_ip calls; "" when neither answers
ProbeChoice(local_ok, vpn_ok) ==
    IF local_ok THEN SERVER_IP_LOCAL
    ELSE IF vpn_ok THEN SERVER_IP_VPN
    ELSE ""

PrimaryOnFailure(cached) == SERVER_IP_LOCAL

\* cached or SERVER_IP_LOCAL
FailedProbeIp(cached) == IF cached # "" THEN cached ELSE SERVER_IP_LOCAL

\* select_server_ip(force) at clock value t on network net, with the
\* answers the two ping_ip calls would get: the address returned, whether
\* the addresses were probed, and state.json afterwards
select_server_ip(file, force, net, t, local_ok, vpn_ok) ==
    LET cached == state_get(file, "active_ip", "") IN
    IF cached # "" /\ ~force /\ ~should_retest(file, t)
    THEN [ip |-> cached, probed |-> FALSE, file |-> file]
    ELSE LET ip == ProbeChoice(local_ok, vpn_ok) IN
         IF ip = ""
         THEN [ip |-> FailedProbeIp(cached), probed |-> TRUE, file |-> file]
         ELSE [ip |-> ip, probed |-> TRUE,
               file |-> state_set(state_set(state_set(file,
                            "active_ip", ip),
                            "last_ip_test", t),
                            "last_network", net)]

InitUnits ==
    /\ attempts = 0
    /\ checked_in = {}
    /\ timer = 0
    /\ cron_out = <<>>
    /\ policy = DefaultPolicy
    /\ battery = Reading(NoLevel, FALSE)
    /\ heartbeat_delay = 0
    /\ exec_out = <<>>
    /\ program = "none"
    /\ inbox = <<>>
    /\ receive_pc = "waiting"
    /\ running = 0
    /\ file_state = "complete"
    /\ writing = <<>>
    /\ crashed = <<>>
    /\ policies = <<>>
    /\ policy_req = <<>>
    /\ state_file = EmptyState
    /\ network = HomeNet
    /\ watcher_network = HomeNet
    /\ reprobe_owed = FALSE
    /\ selection = <<>>
    /\ used_ip = <<>>
    /\ checkin_reply = <<>>

Init ==
    /\ status = [d \in Devices |-> "absent"]
    /\ InitSessions
    /\ InitTaskStore
    /\ InitAgent
    /\ InitUnits

\* ---- POST /api/agent/checkin --------------------------------------------
\* creates the Device row with status online, or sets an existing row online
agent_checkin(d) ==
    /\ status[d] # "online"
    /\ status' = [status EXCEPT ![d] = "online"]
    /\ UNCHANGED active_connections
    /\ UNCHANGED session_vars
    /\ UNCHANGED push_vars
    /\ UNCHANGED <<task_vars, agent_vars, unit_vars>>

\* ---- /ws/agent/{device_id} ----------------------------------------------
\* a client opens a connection; the coroutine runs up to its first await
ws_connect(d, token) ==
    /\ connections < MaxSessions
    /\ LET s == connections + 1 IN
       /\ connections' = s
       /\ path_device' = [path_device EXCEPT ![s] = d]
       /\ query_token' = [query_token EXCEPT ![s] = token]
       /\ IF TokenOk(token)
          THEN /\ pc' = [pc EXCEPT ![s] = "accepting"]
               /\ ws_open' = [ws_open EXCEPT ![s] = TRUE]
               /\ close_code' = close_code
          ELSE /\ pc' = [pc EXCEPT ![s] = "closed"]
               /\ ws_open' = ws_open
               /\ close_code' = [close_code EXCEPT ![s] = CLOSE_BAD_TOKEN]
    /\ UNCHANGED <<unregistered, last_registered>>
    /\ UNCHANGED active_connections
    /\ UNCHANGED db_vars
    /\ UNCHANGED push_vars
    /\ UNCHANGED <<task_vars, agent_vars, unit_vars>>

\* await websocket.accept() returns; active_connections[device_id] = websocket
ws_accept(s) ==
    /\ pc[s] = "accepting"
    /\ LET d == path_device[s] IN
       IF ws_open[s]
       THEN /\ active_connections' = DictSet(active_connections, d, s)
            /\ pc' = [pc EXCEPT ![s] = "open"]
            /\ last_registered' = [last_registered EXCEPT ![d] = s]
       ELSE \* accept raises on a connection the client already dropped
            /\ pc' = [pc EXCEPT ![s] = "closed"]
            /\ UNCHANGED <<active_connections, last_registered>>
    /\ UNCHANGED <<path_device, query_token, ws_open, close_code,
                   unregistered, connections>>
    /\ UNCHANGED db_vars
    /\ UNCHANGED push_vars
    /\ UNCHANGED <<task_vars, agent_vars, unit_vars>>

\* the client side of the connection goes away
transport_drop(s) ==
    /\ pc[s] \in {"accepting", "open"}
    /\ ws_open[s]
    /\ ws_open' = [ws_open EXCEPT ![s] = FALSE]
    /\ UNCHANGED <<pc, path_device, query_token, close_code,
                   unregistered, last_registered, connections>>
    /\ UNCHANGED active_connections
    /\ UNCHANGED db_vars
    /\ UNCHANGED push_vars
    /\ UNCHANGED <<task_vars, agent_vars, unit_vars>>

\* first half of the finally block: active_connections.pop(device_id, None)
LeaveLoop(s) ==
    /\ active_connections' = DictPop(active_connections, path_device[s])
    /\ pc' = [pc EXCEPT ![s] = "closing"]
    /\ unregistered' = [unregistered EXCEPT ![s] = @ + 1]

\* one iteration of "async for raw_message in websocket.iter_text()"
ws_receive(s, frame) ==
    /\ pc[s] = "open"
    /\ ws_open[s]
    /\ IF Raises(frame)
       THEN \* not a WebSocketDisconnect: leaves the loop through finally
            /\ LeaveLoop(s)
            /\ UNCHANGED db_vars
       ELSE /\ status' = IF frame = "heartbeat"
                         THEN handle_heartbeat(status, path_device[s])
                         ELSE status
            /\ UNCHANGED <<active_connections, pc, unregistered>>
    /\ UNCHANGED <<path_device, query_token, ws_open, close_code,
                   last_registered, connections>>
    /\ UNCHANGED push_vars
    /\ UNCHANGED <<task_vars, agent_vars, unit_vars>>

\* iter_text ends on the dropped connection
ws_disconnect(s) ==
    /\ pc[s] = "open"
    /\ ~ws_open[s]
    /\ LeaveLoop(s)
    /\ UNCHANGED <<path_device, query_token, ws_open, close_code,
                   last_registered, connections>>
    /\ UNCHANGED db_vars
    /\ UNCHANGED push_vars
    /\ UNCHANGED <<task_vars, agent_vars, unit_vars>>

\* second half of the finally block: update_device_status(..., "offline");
\* the coroutine returns and the server closes the socket
ws_finalize(s) ==
    /\ pc[s] = "closing"
    /\ status' = update_device_status(status, path_device[s], "offline")
    /\ pc' = [pc EXCEPT ![s] = "closed"]
    /\ ws_open' = [ws_open EXCEPT ![s] = FALSE]
    /\ UNCHANGED active_connections
    /\ UNCHANGED <<path_device, query_token, close_code,
                   unregistered, last_registered, connections>>
    /\ UNCHANGED push_vars
    /\ UNCHANGED <<task_vars, agent_vars, unit_vars>>

\* ---- dashboard: create_task(dispatch_now) / dispatch_now ----------------
\* redis.publish("push_commands", {"type": "run_task", "device_id": target})
\* Redis delivers a message to the subscriptions that exist when it is
\* published; before the listener subscribed it is lost.  holder is not part
\* of the payload: it records which connection of the target device had
\* registered last when the envelope was published.
publish_run_task(target) ==
    /\ published < MaxPublish
    /\ published' = published + 1
    /\ bus' = IF listener.pc = "sleeping" THEN bus
              ELSE Append(bus, [seq |-> published + 1, device_id |-> target,
                                holder |-> IF target \in Devices
                                           THEN last_registered[target]
                                           ELSE NoSession])
    /\ UNCHANGED <<listener, written>>
    /\ UNCHANGED active_connections
    /\ UNCHANGED db_vars
    /\ UNCHANGED session_vars
    /\ UNCHANGED <<task_vars, agent_vars, unit_vars>>

\* ---- listen_for_push_commands -------------------------------------------
listen_subscribe ==
    /\ listener.pc = "sleeping"
    /\ listener' = [listener EXCEPT !.pc = "listening"]
    /\ UNCHANGED <<bus, published, written>>
    /\ UNCHANGED active_connections
    /\ UNCHANGED db_vars
    /\ UNCHANGED session_vars
    /\ UNCHANGED <<task_vars, agent_vars, unit_vars>>

TakeLast(q) == [msg |-> q[Len(q)], rest |-> SubSeq(q, 1, Len(q) - 1)]

\* the listener reads the channel in the order Redis delivered
BusTake(q) == [msg |-> Head(q), rest |-> Tail(q)]

\* ws.send_text(...): written to an open socket, raises on a closed one
send_text(ws, msg) ==
    IF ws_open[ws]
    THEN Append(written, [ws |-> ws, seq |-> msg.seq, target |-> msg.device_id])
    ELSE written

\* one iteration of "for ws in list(active_connections.values())"; a send
\* that raises leaves the loop for the except clause
FanOutStep(msg, snap, pend) ==
    LET ws == Head(pend) IN
    /\ written' = send_text(ws, msg)
    /\ listener' =
         IF ws_open[ws] /\ Tail(pend) # <<>>
         THEN [pc |-> "sending", msg |-> msg, snap |-> snap,
               pending |-> Tail(pend)]
         ELSE Idle

\* one message of pubsub.listen(), up to the first await that suspends
listen_message ==
    /\ listener.pc = "listening"
    /\ bus # <<>>
    /\ LET msg    == BusTake(bus).msg
           target == msg.device_id
       IN
       /\ bus' = BusTake(bus).rest
       /\ IF target = "all"
          THEN LET snap == DictValues(active_connections) IN
               IF snap = <<>>
               THEN /\ listener' = Idle
                    /\ written' = written
               ELSE FanOutStep(msg, snap, snap)
          ELSE IF DictHas(active_connections, target)
          THEN LET ws == DictGet(active_connections, target) IN
               /\ written' = send_text(ws, msg)
               /\ listener' = Idle
          ELSE /\ listener' = Idle
               /\ written' = written
    /\ UNCHANGED published
    /\ UNCHANGED active_connections
    /\ UNCHANGED db_vars
    /\ UNCHANGED session_vars
    /\ UNCHANGED <<task_vars, agent_vars, unit_vars>>

\* the for loop resumes after an awaited send_text
listen_send_next ==
    /\ listener.pc = "sending"
    /\ FanOutStep(listener.msg, listener.snap, listener.pending)
    /\ UNCHANGED <<bus, published>>
    /\ UNCHANGED active_connections
    /\ UNCHANGED db_vars
    /\ UNCHANGED session_vars
    /\ UNCHANGED <<task_vars, agent_vars, unit_vars>>

\* ---- routes/tasks.py with triggers (create, dispatch, cancel) ----------
OnlineDevices(st) == SelectSeq(DeviceRows, LAMBDA d : st[d] = "online")

\* the device ids _create_result_stubs adds a row for
StubTargets(task, st) ==
    IF task.target_type = "device" /\ task.target_id # None
    THEN <<task.target_id>>
    ELSE OnlineDevices(st)

\* POST /tasks up to the first commit; a task with trigger "now" goes on to
\* _create_result_stubs and dispatch_task, any other returns
create_task(t, target, trigger) ==
    /\ tasks[t] = NoTask
    /\ tasks' = [tasks EXCEPT ![t] = NewTask(target, trigger)]
    /\ request' = [request EXCEPT ![t] = IF trigger = "now" THEN "stubs"
                                         ELSE "none"]
    /\ UNCHANGED <<task_results, push_log>>
    /\ UNCHANGED <<status, active_connections>>
    /\ UNCHANGED <<session_vars, push_vars, agent_vars, unit_vars>>

\* POST /tasks/{id}/dispatch up to the await of _create_result_stubs
dispatch_now(t) ==
    /\ request[t] = "none"
    /\ tasks[t] # NoTask
    /\ ~tasks[t].cancelled
    /\ Len(push_log) < MaxPublish
    /\ request' = [request EXCEPT ![t] = "stubs"]
    /\ UNCHANGED <<tasks, task_results, push_log>>
    /\ UNCHANGED <<status, active_connections>>
    /\ UNCHANGED <<session_vars, push_vars, agent_vars, unit_vars>>

\* _create_result_stubs: one row per device id, then commit
_create_result_stubs(t) ==
    /\ request[t] = "stubs"
    /\ LET ids == StubTargets(tasks[t], status) IN
       /\ Len(task_results) + Len(ids) <= MaxRows
       /\ task_results' = task_results \o [i \in DOMAIN ids |-> StubRow(t, ids[i])]
    /\ request' = [request EXCEPT ![t] = "dispatch"]
    /\ UNCHANGED <<tasks, push_log>>
    /\ UNCHANGED <<status, active_connections>>
    /\ UNCHANGED <<session_vars, push_vars, agent_vars, unit_vars>>

\* the envelope of a dispatch: run_task for an immediate trigger,
\* schedule_task with the trigger for any other
Envelope(t, task) ==
    [type |-> IF task.trigger_type = "now" THEN "run_task" ELSE "schedule_task",
     device_id |-> IF task.target_type = "device" THEN task.target_id ELSE "all",
     task_id |-> t, trigger_type |-> task.trigger_type]

\* dispatch_task(db, task): publishes the envelope, sets status dispatched
\* on the task object of the request and commits
dispatch_task(t) ==
    /\ request[t] = "dispatch"
    /\ push_log' = Append(push_log, Envelope(t, tasks[t]))
    /\ tasks' = [tasks EXCEPT ![t].status = "dispatched"]
    /\ request' = [request EXCEPT ![t] = "none"]
    /\ UNCHANGED task_results
    /\ UNCHANGED <<status, active_connections>>
    /\ UNCHANGED <<session_vars, push_vars, agent_vars, unit_vars>>

\* POST /tasks/{id}/cancel
cancel_task(t) ==
    /\ tasks[t] # NoTask
    /\ ~tasks[t].cancelled
    /\ tasks' = [tasks EXCEPT ![t].cancelled = TRUE, ![t].status = "cancelled"]
    /\ UNCHANGED <<task_results, push_log, request>>
    /\ UNCHANGED <<status, active_connections>>
    /\ UNCHANGED <<session_vars, push_vars, agent_vars, unit_vars>>

\* ---- backend/routes/tasks.py and handle_task_result --------------------
\* the target fields of a POST /tasks body of the route without triggers
BackendTargets ==
    [target_type : {"device"}, target_id : Devices]
    \cup [target_type : {"all"}, target_id : {None}]

BackendTask(target, st) ==
    [status |-> st, cancelled |-> FALSE, trigger_type |-> None,
     target_type |-> target.target_type, target_id |-> target.target_id,
     target_platform |-> None]

RunTask(t, task) ==
    [type |-> "run_task",
     device_id |-> IF task.target_type = "device" THEN task.target_id ELSE "all",
     task_id |-> t, trigger_type |-> None]

\* POST /tasks: with dispatch_now or run_now the route publishes run_task
\* and sets status dispatched
backend_create_task(t, target, dispatch) ==
    /\ tasks[t] = NoTask
    /\ IF dispatch
       THEN /\ Len(push_log) < MaxPublish
            /\ tasks' = [tasks EXCEPT ![t] = BackendTask(target, "dispatched")]
            /\ push_log' = Append(push_log, RunTask(t, BackendTask(target, "pending")))
       ELSE /\ tasks' = [tasks EXCEPT ![t] = BackendTask(target, "pending")]
            /\ push_log' = push_log
    /\ UNCHANGED <<task_results, request>>
    /\ UNCHANGED <<status, active_connections>>
    /\ UNCHANGED <<session_vars, push_vars, agent_vars, unit_vars>>

\* POST /tasks/{id}/dispatch
backend_dispatch_now(t) ==
    /\ tasks[t] # NoTask
    /\ Len(push_log) < MaxPublish
    /\ push_log' = Append(push_log, RunTask(t, tasks[t]))
    /\ tasks' = [tasks EXCEPT ![t].status = "dispatched"]
    /\ UNCHANGED <<task_results, request>>
    /\ UNCHANGED <<status, active_connections>>
    /\ UNCHANGED <<session_vars, push_vars, agent_vars, unit_vars>>

\* TaskResult(id=uuid4(), task_id, device_id, exit_code, stdout, stderr):
\* status and progress, where the table has them, keep the column defaults
ResultRow(t, d, data) ==
    [task_id |-> t, device_id |-> d, status |-> "running", progress |-> 0,
     exit_code |-> data.exit_code, stdout |-> data.stdout,
     stderr |-> data.stderr]

\* a task_result frame of device d for task t; both foreign keys exist
handle_task_result(d, t, data) ==
    /\ status[d] # "absent"
    /\ tasks[t] # NoTask
    /\ Len(task_results) < MaxRows
    /\ task_results' = Append(task_results, ResultRow(t, d, data))
    /\ UNCHANGED <<tasks, push_log, request>>
    /\ UNCHANGED <<status, active_connections>>
    /\ UNCHANGED <<session_vars, push_vars, agent_vars, unit_vars>>

\* ---- the agent: main, receive loop, local_task_runner -------------------
\* for task in resp.get("scheduled_tasks", []): add_or_update_task(task)
RECURSIVE SeedCache(_, _)
SeedCache(file, seed) ==
    IF seed = <<>> THEN file
    ELSE SeedCache(add_or_update_task(file, Head(seed)), Tail(seed))

\* main(): the initial check-in seeds the cache with scheduled_tasks; without
\* an answer the loops start on the cache as it is
main_checkin(seed) ==
    /\ agent_pc = "starting"
    /\ server_up \/ seed = <<>>
    /\ tasks_file' = SeedCache(tasks_file, seed)
    /\ agent_pc' = "running"
    /\ UNCHANGED <<runner, now, server_up, srv_cancelled, executions, skipped>>
    /\ UNCHANGED <<status, active_connections>>
    /\ UNCHANGED <<session_vars, push_vars, task_vars, unit_vars>>

\* the agent process ends and is started again; tasks.json stays on disk
agent_restart ==
    /\ agent_pc = "running"
    /\ agent_pc' = "starting"
    /\ runner' = Sleeping
    /\ UNCHANGED <<tasks_file, now, server_up, srv_cancelled, executions,
                   skipped>>
    /\ UNCHANGED <<status, active_connections>>
    /\ UNCHANGED <<session_vars, push_vars, task_vars, unit_vars>>

\* receive(): a schedule_task frame
recv_schedule_task(task) ==
    /\ agent_pc = "running"
    /\ tasks_file' = add_or_update_task(tasks_file, task)
    /\ UNCHANGED <<runner, now, server_up, srv_cancelled, executions, skipped,
                   agent_pc>>
    /\ UNCHANGED <<status, active_connections>>
    /\ UNCHANGED <<session_vars, push_vars, task_vars, unit_vars>>

\* receive(): a cancel_task frame
recv_cancel_task(task_id) ==
    /\ agent_pc = "running"
    /\ tasks_file' = cancel_task_local(tasks_file, task_id)
    /\ UNCHANGED <<runner, now, server_up, srv_cancelled, executions, skipped,
                   agent_pc>>
    /\ UNCHANGED <<status, active_connections>>
    /\ UNCHANGED <<session_vars, push_vars, task_vars, unit_vars>>

\* the body of "for task in tasks" from the first of the pending tasks up to
\* the await of execute_task or the end of the list; nothing else runs in
\* between (requests.get blocks the event loop)
RECURSIVE RunPending(_, _, _)
RunPending(pending, file, skip) ==
    IF pending = <<>>
    THEN [file |-> file, skipped |-> skip, task |-> NoRecord,
          checked |-> None, rest |-> <<>>]
    ELSE LET task     == Head(pending)
             prechk   == task.trigger_type \in {"once", "cron", "interval"}
             response == PreRunResponse(task.task_id)
         IN IF ~task_is_due(task, now)
            THEN RunPending(Tail(pending), file, skip)
            ELSE IF prechk /\ ~check_task_still_active(response)
            THEN RunPending(Tail(pending),
                            cancel_task_local(file, task.task_id),
                            skip \cup {task.task_id})
            ELSE [file |-> file, skipped |-> skip, task |-> task,
                  checked |-> IF prechk THEN response ELSE None,
                  rest |-> Tail(pending)]

\* the runner goes on with the pending tasks: it awaits an execution or
\* reaches the end of the list and sleeps
RunnerContinue(pending, file) ==
    LET r == RunPending(pending, file, skipped) IN
    /\ tasks_file' = r.file
    /\ skipped' = r.skipped
    /\ IF r.task = NoRecord
       THEN /\ runner' = Sleeping
            /\ executions' = executions
       ELSE /\ executions[r.task.task_id] < MaxRuns
            /\ runner' = [pc |-> "executing", task |-> r.task,
                          checked |-> r.checked, rest |-> r.rest]
            /\ executions' = [executions EXCEPT ![r.task.task_id] = @ + 1]

\* a tick of local_task_runner: the tasks of the cache that are not cancelled
runner_tick ==
    /\ agent_pc = "running"
    /\ runner.pc = "sleeping"
    /\ RunnerContinue(SelectSeq(tasks_file, LAMBDA r : ~r.cancelled), tasks_file)
    /\ UNCHANGED <<now, server_up, srv_cancelled, agent_pc>>
    /\ UNCHANGED <<status, active_connections>>
    /\ UNCHANGED <<session_vars, push_vars, task_vars, unit_vars>>

\* execute_task returns: a once task is removed, any other gets last_run;
\* the for loop goes on
runner_finish ==
    /\ agent_pc = "running"
    /\ runner.pc = "executing"
    /\ LET task_id == runner.task.task_id IN
       RunnerContinue(runner.rest,
                      IF runner.task.trigger_type = "once"
                      THEN remove_task(tasks_file, task_id)
                      ELSE set_last_run(tasks_file, task_id, now))
    /\ UNCHANGED <<now, server_up, srv_cancelled, agent_pc>>
    /\ UNCHANGED <<status, active_connections>>
    /\ UNCHANGED <<session_vars, push_vars, task_vars, unit_vars>>

\* time passes
advance_clock ==
    /\ now < MaxTime
    /\ now' = now + 1
    /\ UNCHANGED <<tasks_file, runner, server_up, srv_cancelled, executions,
                   skipped, agent_pc>>
    /\ UNCHANGED <<status, active_connections>>
    /\ UNCHANGED <<session_vars, push_vars, task_vars, unit_vars>>

\* the server becomes unreachable for the agent, or reachable again
server_outage ==
    /\ server_up' = ~server_up
    /\ UNCHANGED <<tasks_file, runner, now, srv_cancelled, executions,
                   skipped, agent_pc>>
    /\ UNCHANGED <<status, active_connections>>
    /\ UNCHANGED <<session_vars, push_vars, task_vars, unit_vars>>

\* POST /tasks/{id}/cancel at the server
server_cancel(task_id) ==
    /\ task_id \notin srv_cancelled
    /\ srv_cancelled' = srv_cancelled \cup {task_id}
    /\ UNCHANGED <<tasks_file, runner, now, server_up, executions,
                   skipped, agent_pc>>
    /\ UNCHANGED <<status, active_connections>>
    /\ UNCHANGED <<session_vars, push_vars, task_vars, unit_vars>>

\* ---- specifications ---------------------------------------------------
\* Spec: check-in and the agent sessions.  The push actions leave status,
\* the registry and the sessions unchanged, so they are not interleaved here.
Next ==
    \/ \E d \in Devices : agent_checkin(d)
    \/ \E d \in Devices, token \in Tokens : ws_connect(d, token)
    \/ \E s \in Sessions : ws_accept(s)
    \/ \E s \in Sessions : transport_drop(s)
    \/ \E s \in Sessions, frame \in Frames : ws_receive(s, frame)
    \/ \E s \in Sessions : ws_disconnect(s)
    \/ \E s \in Sessions : ws_finalize(s)

Spec == Init /\ [][Next]_vars

\* SpecPush: the agent sessions of authenticated agents with the push
\* channel and its listener.  Sessions end by a dropped connection; inbound
\* frames write neither to the channel nor to a socket and are left to Spec.
\* No device checks in, so no Device row exists: the status update that ends
\* the finally block (ws_finalize) writes nothing, and no other step reads
\* whether a session that left its loop has returned, so a closing session
\* stays at "closing" here.
NextPush ==
    \/ \E d \in Devices : ws_connect(d, AGENT_TOKEN)
    \/ \E s \in Sessions : ws_accept(s)
    \/ \E s \in Sessions : transport_drop(s)
    \/ \E s \in Sessions : ws_disconnect(s)
    \/ \E target \in Devices \cup {"all"} : publish_run_task(target)
    \/ listen_subscribe
    \/ listen_message
    \/ listen_send_next

SpecPush == Init /\ [][NextPush]_vars

\* SpecTasks: the task routes with triggers over devices that have checked
\* in before, are connected or have gone offline; devices check in meanwhile.
InitTasks ==
    /\ status \in [Devices -> DeviceStatuses]
    /\ InitSessions
    /\ InitTaskStore
    /\ InitAgent
    /\ InitUnits

NextTasks ==
    \/ \E d \in Devices : agent_checkin(d)
    \/ \E t \in TaskIds, target \in TargetSpecs, trigger \in TriggerTypes :
          create_task(t, target, trigger)
    \/ \E t \in TaskIds : dispatch_now(t)
    \/ \E t \in TaskIds : _create_result_stubs(t)
    \/ \E t \in TaskIds : dispatch_task(t)
    \/ \E t \in TaskIds : cancel_task(t)

SpecTasks == InitTasks /\ [][NextTasks]_vars

\* SpecBackend: the task routes of backend/routes/tasks.py and the
\* task_result frames of the agents
NextBackend ==
    \/ \E d \in Devices : agent_checkin(d)
    \/ \E t \in TaskIds, target \in BackendTargets, dispatch \in BOOLEAN :
          backend_create_task(t, target, dispatch)
    \/ \E t \in TaskIds : backend_dispatch_now(t)
    \/ \E d \in Devices, t \in TaskIds, data \in ResultData :
          handle_task_result(d, t, data)

SpecBackend == InitTasks /\ [][NextBackend]_vars

\* SpecAgent: one agent with its task cache, the frames it receives, the
\* runner, the clock, and the server as the pre-run check sees it
NextAgent ==
    \/ \E seed \in SeedLists : main_checkin(seed)
    \/ agent_restart
    \/ \E task \in AgentDefs : recv_schedule_task(task)
    \/ \E task_id \in CachedIds : recv_cancel_task(task_id)
    \/ runner_tick
    \/ runner_finish
    \/ advance_clock
    \/ server_outage
    \/ \E task_id \in CachedIds : server_cancel(task_id)

SpecAgent == Init /\ [][NextAgent]_vars

\* ---- helpers of the properties ------------------------------------------
Range(q) == {q[i] : i \in DOMAIN q}

\* the step is listen_message
TakesMessage == listener.pc = "listening" /\ bus # <<>> /\ bus' = Tail(bus)

\* the step ends the handling of an envelope addressed to "all"
FanOutEnds ==
    /\ listener'.pc = "listening"
    /\ \/ listener.pc = "sending"
       \/ TakesMessage /\ Head(bus).device_id = "all"

FanOutMsg  == IF listener.pc = "sending" THEN listener.msg ELSE Head(bus)
FanOutSnap == IF listener.pc = "sending" THEN listener.snap
              ELSE DictValues(active_connections)

WasRegistered(s) == pc[s] = "open" \/ unregistered[s] > 0

\* ---- C1 ------------------------------------------------------------------
\* C1: in every reachable state a device's stored status is online if and
\* only if a session handle of that device is in the connection registry.
C1_OnlineIffRegistered ==
    \A d \in Devices :
        (status[d] = "online") <=> DictHas(active_connections, d)

\* ---- C2 ------------------------------------------------------------------
\* C2: when a session closes while the registry holds another (newer)
\* session of its device, the close leaves the registry as it is.
C2_CloseKeepsNewerSession ==
    [][\A s \in Sessions :
         ( /\ pc[s] = "open"
           /\ pc'[s] = "closing"
           /\ DictHas(active_connections, path_device[s])
           /\ DictGet(active_connections, path_device[s]) # s )
         => active_connections' = active_connections]_vars

\* ---- C3 ------------------------------------------------------------------
\* C3: when a session is registered for a device id that already has a
\* registered session, the prior session's socket is no longer open once
\* the new handle is in the registry.
C3_RegisterClosesPrior ==
    [][\A s \in Sessions :
         ( /\ pc[s] = "accepting"
           /\ pc'[s] = "open"
           /\ DictHas(active_connections, path_device[s]) )
         => ~ws_open'[DictGet(active_connections, path_device[s])]]_vars

\* ---- C4 ------------------------------------------------------------------
\* C4: at every instant the registry holds at most one session handle per
\* device id.
C4_AtMostOneHandlePerDevice ==
    \A i, j \in DOMAIN active_connections :
        active_connections[i].k = active_connections[j].k => i = j

\* a device reconnected while its older session is still open
C4_Witness ==
    \E s1, s2 \in Sessions :
        /\ s1 # s2
        /\ path_device[s1] = path_device[s2]
        /\ pc[s1] = "open" /\ pc[s2] = "open"
        /\ Registered(s2) /\ ~Registered(s1)

\* ---- C5 ------------------------------------------------------------------
\* C5: a run_task for device d that was published after d's second session
\* s2 was registered (an older session of d having been registered before
\* it) is written to s2 whenever s2 is still open and still d's newest
\* session when the listener handles the envelope.
C5_RunTaskReachesNewSession ==
    [][TakesMessage =>
         LET e  == Head(bus)
             d  == e.device_id
             s2 == e.holder
         IN ( /\ d \in Devices
              /\ s2 # NoSession
              /\ last_registered[d] = s2
              /\ pc[s2] = "open" /\ ws_open[s2]
              /\ \E s1 \in Sessions \ {s2} :
                    path_device[s1] = d /\ WasRegistered(s1) )
            => written' = Append(written,
                                 [ws |-> s2, seq |-> e.seq, target |-> d])]_vars

\* ---- C6 ------------------------------------------------------------------
\* C6: a connection whose token differs from the agent token is closed with
\* code 4003, is never in the registry, and its attempt changes neither the
\* registry nor any device's status.
C6_BadTokenRejected ==
    /\ [](\A s \in Sessions :
            (pc[s] # "idle" /\ query_token[s] # AGENT_TOKEN)
            => /\ pc[s] = "closed"
               /\ close_code[s] = 4003
               /\ ~Registered(s)
               /\ unregistered[s] = 0)
    /\ [][\A s \in Sessions :
            (pc[s] = "idle" /\ pc'[s] # "idle" /\ query_token'[s] # AGENT_TOKEN)
            => /\ active_connections' = active_connections
               /\ status' = status]_vars

\* a bad-token attempt for a device whose other session is registered
C6_Witness ==
    \E s, r \in Sessions :
        /\ query_token[s] = "bad" /\ pc[s] = "closed" /\ close_code[s] = 4003
        /\ path_device[r] = path_device[s] /\ Registered(r)
        /\ status[path_device[s]] = "online"

C8_OnlyTransportErrorCloses ==
    [][\A s \in Sessions :
         (pc[s] = "open" /\ pc'[s] # "open") => ~ws_open[s]]_vars

\* ---- C9 ------------------------------------------------------------------
\* C9: for each device, the envelopes written to its sessions are written
\* in publish order, device-targeted and "all" envelopes alike.
C9_WritesInPublishOrder ==
    \A i, j \in DOMAIN written :
        (i < j /\ path_device[written[i].ws] = path_device[written[j].ws])
        => written[i].seq < written[j].seq

\* a device got an "all" envelope and an envelope of its own
C9_Witness ==
    \E i, j \in DOMAIN written :
        /\ i # j
        /\ path_device[written[i].ws] = path_device[written[j].ws]
        /\ written[i].target = "all"
        /\ written[j].target = path_device[written[j].ws]

\* ---- C10 -----------------------------------------------------------------
\* C10: when the handling of an "all" envelope ends, the envelope has been
\* written to every session of the registry snapshot whose socket is open,
\* whatever happened to the sends to the other sessions.
C10_FanOutReachesEveryOpenSession ==
    [][FanOutEnds =>
         \A s \in Range(FanOutSnap) :
            ws_open[s] =>
               \E k \in DOMAIN written' :
                  written'[k].ws = s /\ written'[k].seq = FanOutMsg.seq]_vars

\* ---- tasks ---------------------------------------------------------------
\* the targets of a dispatch as the task names them: the device of a device
\* target, else the online devices, of the task's platform when it names one
ResolvedTargets(task, st) ==
    IF task.target_type = "device" /\ task.target_id # None
    THEN <<task.target_id>>
    ELSE SelectSeq(DeviceRows,
                   LAMBDA d : st[d] = "online"
                              /\ (task.target_platform = "all"
                                  \/ platform[d] = task.target_platform))

AddedRows == SubSeq(task_results', Len(task_results) + 1, Len(task_results'))

\* C11: the rows a dispatch adds to task_results are one stub with status
\* running and progress 0 for each resolved target of the task and no other:
\* the device of a device target, the online devices of the task's platform
\* for target "all".
C11_StubsForResolvedTargets ==
    [][\A t \in TaskIds :
         request[t] = "stubs" /\ request'[t] = "dispatch" =>
           LET ids == ResolvedTargets(tasks[t], status) IN
           AddedRows = [i \in DOMAIN ids |-> StubRow(t, ids[i])]]_vars

\* C12: a task with status dispatched has at least one row in task_results.
C12_DispatchedHasResultRow ==
    \A t \in TaskIds :
      tasks[t].status = "dispatched" =>
        \E i \in DOMAIN task_results : task_results[i].task_id = t

\* C13: a task whose cancelled flag is set has status cancelled.
C13_CancelledFlagMeansCancelled ==
    \A t \in TaskIds : tasks[t].cancelled => tasks[t].status = "cancelled"

\* a create or dispatch request for task t returns in this step
RequestReturns(t) ==
    \/ tasks[t] = NoTask /\ tasks'[t] # NoTask /\ request'[t] = "none"
    \/ request[t] = "dispatch" /\ request'[t] = "none"

\* C14: a create or dispatch request for a task with trigger once, interval,
\* cron or event has published a schedule_task envelope with the task's
\* trigger when it returns, and no run_task envelope is ever published for
\* such a task.
C14_ScheduledTriggerPublishesScheduleTask ==
    /\ [](\A i \in DOMAIN push_log :
            push_log[i].trigger_type # "now" => push_log[i].type = "schedule_task")
    /\ [][\A t \in TaskIds :
            RequestReturns(t) /\ tasks'[t].trigger_type # "now" =>
              /\ Len(push_log') > Len(push_log)
              /\ push_log'[Len(push_log')] =
                   [type |-> "schedule_task",
                    device_id |-> push_log'[Len(push_log')].device_id,
                    task_id |-> t,
                    trigger_type |-> tasks'[t].trigger_type]]_vars

\* C15: task_results holds at most one row for a (task_id, device_id) pair.
C15_OneRowPerTaskAndDevice ==
    \A i, j \in DOMAIN task_results :
      (/\ task_results[i].task_id = task_results[j].task_id
       /\ task_results[i].device_id = task_results[j].device_id) => i = j

\* C16: every row of task_results has at most 64 KiB of stdout and at most
\* 16 KiB of stderr.
C16_StoredOutputCapped ==
    \A i \in DOMAIN task_results :
      /\ task_results[i].stdout <= 64 * 1024
      /\ task_results[i].stderr <= 16 * 1024

\* ---- the agent's runner --------------------------------------------------
\* the runner starts an execution of task t in this step
Started(t) == executions'[t] > executions[t]

Cached(file, t) == \E i \in DOMAIN file : file[i].task_id = t
Record(file, t) == file[CHOOSE i \in DOMAIN file : file[i].task_id = t]

\* C17: the runner starts no execution of a task whose record in the cache
\* is marked cancelled when the runner comes to that task, whenever the
\* cancel_task frame was processed, also during the execution of an earlier
\* task of the same tick.
C17_NoStartOfLocallyCancelled ==
    [][\A t \in CachedIds :
         Started(t) => ~(Cached(tasks_file, t) /\ Record(tasks_file, t).cancelled)]_vars

\* C18: the runner starts at most one execution of a once task id, over
\* ticks, restarts, check-in seedings and schedule_task frames.
C18_OnceRunsAtMostOnce ==
    \A a \in AgentDefs : a.trigger_type = "once" => executions[a.task_id] <= 1

\* C19: when the pre-run check of a task is answered with cancelled=true the
\* runner does not start the task, its record in the cache is marked
\* cancelled, and the runner starts it on no later tick.
C19_ServerCancelledNeverRuns ==
    [][\A t \in CachedIds :
         /\ t \in skipped' \ skipped =>
              /\ ~Started(t)
              /\ Cached(tasks_file', t) /\ Record(tasks_file', t).cancelled
         /\ Started(t) => t \notin skipped]_vars

\* execute_task of the runner returns in this step
Finishes == runner.pc = "executing" /\ agent_pc' = "running" /\ runner' # runner

\* C20: while the server is unreachable the runner, coming to a due interval
\* task of the cache, starts it; when the execution returns the record's
\* last_run is the clock value of that moment and the task is due again
\* exactly from one interval after it.
C20_UnreachableServerDoesNotBlock ==
    /\ [](\A i \in DOMAIN tasks_file :
            LET task == tasks_file[i] IN
            (/\ task.trigger_type = "interval"
             /\ ~task.cancelled
             /\ task_is_due(task, now)
             /\ ~server_up)
            => RunPending(<<task>>, tasks_file, skipped).task = task)
    /\ [][Finishes /\ runner.task.trigger_type = "interval" =>
            /\ Cached(tasks_file', runner.task.task_id)
            /\ LET rec == Record(tasks_file', runner.task.task_id) IN
               /\ rec.last_run = now
               /\ \A t \in 0..(MaxTime + rec.interval_seconds) :
                    task_is_due(rec, t) <=> t >= now + rec.interval_seconds]_vars

\* an interval task that ran before is due one interval after its last_run
\* and is executing again after a pre-run check that got no answer
C20_Witness ==
    /\ runner.pc = "executing"
    /\ runner.task.trigger_type = "interval"
    /\ runner.checked = "exception"
    /\ runner.task.last_run # NoTime
    /\ now >= runner.task.last_run + runner.task.interval_seconds

\* ==== the initial check-in of main() =====================================
\* the two agent programs: agent/windows_agent.py and android_agent.py
AgentPrograms == {"v1", "v2"}

\* for _ in range(10)
CHECKIN_ATTEMPTS == 10

\* android_agent.py main(): one pass of the check-in loop. With an answer the
\* scheduled_tasks are cached and the loop is left; without one the pass
\* counts, and after the last pass the loops start all the same
main_checkin_attempt(seed) ==
    /\ agent_pc = "starting"
    /\ attempts < CHECKIN_ATTEMPTS
    /\ IF server_up
       THEN /\ tasks_file' = SeedCache(tasks_file, seed)
            /\ checked_in' = checked_in \cup {"v2"}
            /\ agent_pc' = "running"
            /\ UNCHANGED attempts
       ELSE /\ seed = <<>>
            /\ attempts' = attempts + 1
            /\ agent_pc' = IF attempts' = CHECKIN_ATTEMPTS THEN "running"
                           ELSE "starting"
            /\ UNCHANGED <<tasks_file, checked_in>>
    /\ UNCHANGED <<runner, now, server_up, srv_cancelled, executions, skipped>>
    /\ UNCHANGED not_checkin_vars
    /\ UNCHANGED <<status, active_connections>>
    /\ UNCHANGED <<session_vars, push_vars, task_vars>>

\* agent/windows_agent.py main(): "while True" around do_checkin; a pass
\* without an answer changes nothing and the next one follows 30 s later
v1_main_checkin ==
    /\ "v1" \notin checked_in
    /\ server_up
    /\ checked_in' = checked_in \cup {"v1"}
    /\ UNCHANGED attempts
    /\ UNCHANGED not_checkin_vars
    /\ UNCHANGED agent_vars
    /\ UNCHANGED <<status, active_connections>>
    /\ UNCHANGED <<session_vars, push_vars, task_vars>>

NextCheckin ==
    \/ \E seed \in SeedLists : main_checkin_attempt(seed)
    \/ v1_main_checkin
    \/ server_outage

\* both programs keep running: a sleep of the check-in loop ends and the
\* next pass is made
SpecCheckin ==
    /\ Init
    /\ [][NextCheckin]_vars
    /\ WF_vars(\E seed \in SeedLists : main_checkin_attempt(seed))
    /\ WF_vars(v1_main_checkin)

\* C21: if from some moment on the server stays reachable, each agent
\* program eventually completes a check-in.
C21_EventuallyChecksIn ==
    (<>[]server_up) => <>(checked_in = AgentPrograms)

\* ==== local_task_runner against the clock ================================
\* One clock unit is the 30 s of the runner's sleep, so interval_seconds = 2
\* of AgentDefs is an interval of 60 s. The loops start at clock value 0 with
\* the cache the check-in has seeded.
TICK == 1

\* longest execution looked at, in clock units (execute_task allows 300 s)
MaxDuration == 3
Durations == 0..MaxDuration

\* clock value up to which the runner is followed
MaxElapsed == 8

\* the sleep of local_task_runner ends; the execution it comes to takes d
timed_runner_tick(d) ==
    /\ agent_pc = "running"
    /\ runner.pc = "sleeping"
    /\ now = timer
    /\ RunnerContinue(SelectSeq(tasks_file, LAMBDA r : ~r.cancelled), tasks_file)
    /\ timer' = IF runner'.pc = "executing" THEN now + d ELSE now + TICK
    /\ UNCHANGED <<now, server_up, srv_cancelled, agent_pc>>
    /\ UNCHANGED not_clock_vars
    /\ UNCHANGED <<status, active_connections>>
    /\ UNCHANGED <<session_vars, push_vars, task_vars>>

\* execute_task returns after its duration; the for loop goes on and the
\* next execution takes d, or the runner sleeps for 30 s
timed_runner_finish(d) ==
    /\ agent_pc = "running"
    /\ runner.pc = "executing"
    /\ now = timer
    /\ LET task_id == runner.task.task_id IN
       RunnerContinue(runner.rest,
                      IF runner.task.trigger_type = "once"
                      THEN remove_task(tasks_file, task_id)
                      ELSE set_last_run(tasks_file, task_id, now))
    /\ timer' = IF runner'.pc = "executing" THEN now + d ELSE now + TICK
    /\ UNCHANGED <<now, server_up, srv_cancelled, agent_pc>>
    /\ UNCHANGED not_clock_vars
    /\ UNCHANGED <<status, active_connections>>
    /\ UNCHANGED <<session_vars, push_vars, task_vars>>

\* time passes while the runner sleeps or awaits the execution
clock_tick ==
    /\ agent_pc = "running"
    /\ now < timer
    /\ now < MaxElapsed
    /\ now' = now + 1
    /\ UNCHANGED <<tasks_file, runner, server_up, srv_cancelled, executions,
                   skipped, agent_pc>>
    /\ UNCHANGED unit_vars
    /\ UNCHANGED <<status, active_connections>>
    /\ UNCHANGED <<session_vars, push_vars, task_vars>>

NextInterval ==
    \/ \E seed \in SeedLists : main_checkin(seed)
    \/ \E d \in Durations : timed_runner_tick(d)
    \/ \E d \in Durations : timed_runner_finish(d)
    \/ clock_tick
    \/ server_outage

SpecInterval == Init /\ [][NextInterval]_vars

\* C22: for the interval task of 60 s cached since clock value 0 the number
\* of executions started differs from floor(elapsed / 60 s) by at most one,
\* and an interval task is due exactly when last_run is null or
\* now - last_run >= interval_seconds.
C22_IntervalCountTracksElapsed ==
    /\ \A i \in DOMAIN tasks_file :
         LET task == tasks_file[i] IN
         task.trigger_type = "interval" =>
            /\ executions[task.task_id] >= (now \div task.interval_seconds) - 1
            /\ executions[task.task_id] <= (now \div task.interval_seconds) + 1
    /\ \A i \in DOMAIN tasks_file :
         LET task == tasks_file[i] IN
         task.trigger_type = "interval" =>
            (task_is_due(task, now) <=>
                \/ task.last_run = NoTime
                \/ now - task.last_run >= task.interval_seconds)

\* ==== task_is_due on a cron task =========================================
\* "30 2 * * 1": the slot of 02:30 is clock unit 1 of the day
MondayTask == CachedTask("t3", "cron", NoTime, 0, [at |-> 1, weekday |-> 1])

\* clock values at which the task is polled: two weeks
MaxPoll == 55

\* the runner polls the cron task at clock value t; last is its last_run
cron_poll(t, last) ==
    /\ t >= now
    /\ now' = t
    /\ LET task == [MondayTask EXCEPT !.last_run = last] IN
       cron_out' = <<[polled   |-> t,
                      last_run |-> last,
                      next_run |-> cron_next_run(task.cron_expression, t),
                      due      |-> task_is_due(task, t)]>>
    /\ UNCHANGED <<tasks_file, runner, server_up, srv_cancelled, executions,
                   skipped, agent_pc>>
    /\ UNCHANGED not_cron_vars
    /\ UNCHANGED <<status, active_connections>>
    /\ UNCHANGED <<session_vars, push_vars, task_vars>>

NextCron == \E t \in 0..MaxPoll, last \in {NoTime, 0} : cron_poll(t, last)

SpecCron == Init /\ [][NextCron]_vars

\* t is a Monday 02:30
MondayAt0230(t) == Weekday(t) = 0 /\ t % Day = MondayTask.cron_expression.at

\* C23: polled at any instant, the task's next run is the first Monday 02:30
\* at or after that instant, and the task is due exactly when polled at a
\* Monday 02:30 it has not run at yet.
C23_CronFiresMonday0230 ==
    \A i \in DOMAIN cron_out :
        LET r == cron_out[i] IN
        /\ MondayAt0230(r.next_run)
        /\ r.next_run >= r.polled
        /\ \A t \in r.polled..r.next_run : MondayAt0230(t) => t = r.next_run
        /\ r.due <=> (MondayAt0230(r.polled) /\ r.last_run < r.polled)

\* ==== a cached task with trigger "now" ===================================
NowTask == CachedTask("t1", "now", NoTime, 0, NoCron)
NowDefs == {NowTask} \cup {d \in AgentDefs : d.task_id # NowTask.task_id}

\* the agent of SpecAgent, with schedule_task frames that carry NowDefs and a
\* check-in that returns no scheduled tasks
NextNow ==
    \/ main_checkin(<<>>)
    \/ \E task \in NowDefs : recv_schedule_task(task)
    \/ runner_tick
    \/ runner_finish
    \/ advance_clock

SpecNow == Init /\ [][NextNow]_vars

\* C24: when the execution of a cached "now" task returns the task is
\* removed from the cache, and the runner starts no "now" record that has
\* been executed before.
C24_NowTaskIsSingleShot ==
    [][/\ (Finishes /\ runner.task.trigger_type = "now")
            => ~Cached(tasks_file', runner.task.task_id)
       /\ \A t \in CachedIds :
            (Started(t) /\ runner'.task.trigger_type = "now")
                => runner'.task.last_run = NoTime]_vars

\* ==== the heartbeat loop and the policy ==================================
\* an update_policy frame sets one entry of the policy to PolicySeconds
PolicySeconds == 45
PolicyUpdates == {[k \in {key} |-> PolicySeconds] : key \in DOMAIN DefaultPolicy}

\* receive(): an update_policy frame
recv_update_policy(data) ==
    /\ policy' = DictUpdate(policy, data)
    /\ UNCHANGED <<battery, heartbeat_delay>>
    /\ UNCHANGED not_heartbeat_vars
    /\ UNCHANGED agent_vars
    /\ UNCHANGED <<status, active_connections>>
    /\ UNCHANGED <<session_vars, push_vars, task_vars>>

\* heartbeat(): a heartbeat is sent and the loop sleeps for the interval of
\* the battery reading
heartbeat(level, charging) ==
    /\ battery' = Reading(level, charging)
    /\ heartbeat_delay' = get_checkin_interval(policy, battery')
    /\ UNCHANGED policy
    /\ UNCHANGED not_heartbeat_vars
    /\ UNCHANGED agent_vars
    /\ UNCHANGED <<status, active_connections>>
    /\ UNCHANGED <<session_vars, push_vars, task_vars>>

NextHeartbeat ==
    \/ \E data \in PolicyUpdates : recv_update_policy(data)
    \/ \E level \in Levels \cup {NoLevel}, charging \in BOOLEAN :
          heartbeat(level, charging)

SpecHeartbeat == Init /\ [][NextHeartbeat]_vars

\* the band of the spec's table
TableBand(b) ==
    IF b.charging \/ b.level = NoLevel THEN "checkin_plugged_seconds"
    ELSE IF b.level \in 80..100 THEN "checkin_battery_100_80_seconds"
    ELSE IF b.level \in 50..79  THEN "checkin_battery_79_50_seconds"
    ELSE IF b.level \in 20..49  THEN "checkin_battery_49_20_seconds"
    ELSE IF b.level \in 10..19  THEN "checkin_battery_19_10_seconds"
    ELSE "checkin_battery_9_0_seconds"

\* C25: after a heartbeat the loop sleeps for the policy entry of the band
\* the table gives for the battery reading; 80, 50, 20 and 10 belong to the
\* higher band.
C25_DelayIsPolicyEntryOfBand ==
    /\ [][policy' = policy =>
            heartbeat_delay' = policy[TableBand(battery')]]_vars
    /\ [](\A level \in Levels \cup {NoLevel}, charging \in BOOLEAN :
              get_checkin_interval(policy, Reading(level, charging))
                = policy[TableBand(Reading(level, charging))])

\* a heartbeat at level 80 on battery, under a policy whose two bands around
\* 80 differ, sleeps for the entry of the band 100-80
C25_Witness ==
    /\ battery = Reading(80, FALSE)
    /\ policy["checkin_battery_100_80_seconds"]
         # policy["checkin_battery_79_50_seconds"]
    /\ heartbeat_delay = policy["checkin_battery_100_80_seconds"]

\* C26: on battery, under the policy in force, a lower level never gives a
\* shorter interval than a higher level.
C26_IntervalMonotoneInBand ==
    \A l1 \in Levels, l2 \in Levels :
        l1 <= l2 =>
            get_checkin_interval(policy, Reading(l1, FALSE))
              >= get_checkin_interval(policy, Reading(l2, FALSE))

\* ==== execute_task: the result dict ======================================
\* A text is kept as its pieces in order, each with the number of its
\* characters kept (len) out of those written (of).
Piece(kind, n) == [kind |-> kind, len |-> n, of |-> n]

\* text[:cap]
RECURSIVE Slice(_, _)
Slice(text, cap) ==
    IF text = <<>> THEN <<>>
    ELSE LET h    == Head(text)
             keep == IF h.len <= cap THEN h.len ELSE cap
         IN <<[h EXCEPT !.len = keep]>> \o Slice(Tail(text), cap - keep)

STDOUT_CAP == 65535
STDERR_CAP == 16383

\* len("Task timed out after 300s"), len("Task timed out after 5 minutes")
NOTE_LEN    == 25
NOTE_LEN_V1 == 30
\* "timed out" ends with the 14th character of either note
TIMED_OUT_END == 14

\* characters of str(e) when the command cannot be started
ExcLens == {1, 54}
\* characters the script wrote to stderr before it ended or was killed
ErrLens == {0, STDERR_CAP - NOTE_LEN, STDERR_CAP - NOTE_LEN + 1,
            STDERR_CAP - TIMED_OUT_END, STDERR_CAP - TIMED_OUT_END + 1,
            STDERR_CAP, STDERR_CAP + 1}
\* characters the script wrote to stdout
OutLens == {0, STDOUT_CAP, STDOUT_CAP + 1}
Outcomes == {"exit", "timeout", "spawn_error"}

\* android_agent.py: the note or the exception text is appended to
\* stderr_buf and the joined text is cut to the cap
ResultV2(outcome, code, out, err, exc) ==
    LET stdout_buf ==
           IF outcome = "spawn_error" THEN <<>> ELSE <<Piece("script", out)>>
        stderr_buf ==
           CASE outcome = "exit"        -> <<Piece("script", err)>>
             [] outcome = "timeout"     -> <<Piece("script", err),
                                             Piece("note", NOTE_LEN)>>
             [] outcome = "spawn_error" -> <<Piece("exception", exc)>>
    IN [exit_code |-> IF outcome = "exit" THEN code ELSE -1,
        stdout    |-> Slice(stdout_buf, STDOUT_CAP),
        stderr    |-> Slice(stderr_buf, STDERR_CAP)]

\* agent/windows_agent.py: on a timeout or an exception the dict carries the
\* note or str(e) alone
ResultV1(outcome, code, out, err, exc) ==
    CASE outcome = "exit"        ->
            [exit_code |-> code,
             stdout    |-> Slice(<<Piece("script", out)>>, STDOUT_CAP),
             stderr    |-> Slice(<<Piece("script", err)>>, STDERR_CAP)]
      [] outcome = "timeout"     ->
            [exit_code |-> -1, stdout |-> <<>>,
             stderr    |-> <<Piece("note", NOTE_LEN_V1)>>]
      [] outcome = "spawn_error" ->
            [exit_code |-> -1, stdout |-> <<>>,
             stderr    |-> <<Piece("exception", exc)>>]

\* one call of execute_task of the program: the subprocess ends with the
\* outcome after the script wrote out characters to stdout and err to stderr
execute_task(prog, outcome, code, out, err, exc) ==
    /\ exec_out' = <<[program |-> prog, outcome |-> outcome,
                      result  |-> IF prog = "v2"
                                  THEN ResultV2(outcome, code, out, err, exc)
                                  ELSE ResultV1(outcome, code, out, err, exc)]>>
    /\ UNCHANGED not_exec_vars
    /\ UNCHANGED agent_vars
    /\ UNCHANGED <<status, active_connections>>
    /\ UNCHANGED <<session_vars, push_vars, task_vars>>

NextExecutor ==
    \E prog \in AgentPrograms, outcome \in Outcomes, code \in {0, 1},
       out \in OutLens, err \in ErrLens, exc \in ExcLens :
        execute_task(prog, outcome, code, out, err, exc)

SpecExecutor == Init /\ [][NextExecutor]_vars

\* the text holds the first n characters of a piece of the kind
Holds(text, kind, n) ==
    \E i \in DOMAIN text : text[i].kind = kind /\ text[i].len >= n

\* C27: the result of an execution that timed out or could not be started
\* has exit_code -1 and a stderr that holds "timed out" or the whole
\* exception text, whatever the script wrote to stderr before.
C27_FailureNoteSurvivesCap ==
    \A i \in DOMAIN exec_out :
        LET r == exec_out[i] IN
        /\ r.outcome = "timeout" =>
              /\ r.result.exit_code = -1
              /\ Holds(r.result.stderr, "note", TIMED_OUT_END)
        /\ r.outcome = "spawn_error" =>
              /\ r.result.exit_code = -1
              /\ \E j \in DOMAIN r.result.stderr :
                    /\ r.result.stderr[j].kind = "exception"
                    /\ r.result.stderr[j].len = r.result.stderr[j].of

\* ==== the receive loop while a run_task subprocess executes ==============
MaxInbox == 2     \* frames waiting on the socket
MaxProcs == 2     \* subprocesses executing at a time

PushFrames ==
    {[type |-> "run_task"],
     [type |-> "cancel_task", task_id |-> "t1"],
     [type |-> "update_policy",
      data |-> [checkin_plugged_seconds |-> PolicySeconds]]}

\* websockets.connect succeeds in the agent loop of program p
ws_connected(p) ==
    /\ program = "none"
    /\ program' = p
    /\ UNCHANGED <<inbox, receive_pc, running>>
    /\ UNCHANGED not_loop_vars
    /\ UNCHANGED agent_vars
    /\ UNCHANGED <<status, active_connections>>
    /\ UNCHANGED <<session_vars, push_vars, task_vars>>

\* the server writes a frame to the agent's socket
frame_arrives(frame) ==
    /\ program # "none"
    /\ Len(inbox) < MaxInbox
    /\ inbox' = Append(inbox, frame)
    /\ UNCHANGED <<program, receive_pc, running>>
    /\ UNCHANGED not_loop_vars
    /\ UNCHANGED agent_vars
    /\ UNCHANGED <<status, active_connections>>
    /\ UNCHANGED <<session_vars, push_vars, task_vars>>

\* "async for raw in ws": the receive loop takes the next frame.
\* android_agent.py hands run_task to asyncio.create_task and goes on;
\* agent/windows_agent.py and agent/android_agent.py await
\* run_in_executor(execute_task) inside the loop. cancel_task has a branch
\* in android_agent.py only.
receive_frame ==
    /\ program # "none"
    /\ receive_pc = "waiting"
    /\ inbox # <<>>
    /\ inbox' = Tail(inbox)
    /\ LET frame == Head(inbox) IN
       CASE frame.type = "run_task" ->
              /\ running < MaxProcs
              /\ running' = running + 1
              /\ receive_pc' = IF program = "v2" THEN "waiting"
                               ELSE "in_executor"
              /\ UNCHANGED <<policy, tasks_file>>
         [] frame.type = "update_policy" ->
              /\ policy' = DictUpdate(policy, frame.data)
              /\ UNCHANGED <<running, receive_pc, tasks_file>>
         [] frame.type = "cancel_task" ->
              /\ tasks_file' = IF program = "v2"
                               THEN cancel_task_local(tasks_file, frame.task_id)
                               ELSE tasks_file
              /\ UNCHANGED <<running, receive_pc, policy>>
    /\ UNCHANGED program
    /\ UNCHANGED <<battery, heartbeat_delay>>
    /\ UNCHANGED not_loop_heartbeat_vars
    /\ UNCHANGED <<runner, now, server_up, srv_cancelled, executions, skipped,
                   agent_pc>>
    /\ UNCHANGED <<status, active_connections>>
    /\ UNCHANGED <<session_vars, push_vars, task_vars>>

\* a subprocess ends and task_result is sent; in the programs that await
\* the executor the receive loop goes on from there
subprocess_ends ==
    /\ running > 0
    /\ running' = running - 1
    /\ receive_pc' = "waiting"
    /\ UNCHANGED <<program, inbox>>
    /\ UNCHANGED not_loop_vars
    /\ UNCHANGED agent_vars
    /\ UNCHANGED <<status, active_connections>>
    /\ UNCHANGED <<session_vars, push_vars, task_vars>>

\* the heartbeat loop is a coroutine of its own beside the receive loop
NextLoops ==
    \/ \E p \in AgentPrograms : ws_connected(p)
    \/ \E frame \in PushFrames : frame_arrives(frame)
    \/ receive_frame
    \/ subprocess_ends
    \/ \E charging \in BOOLEAN : heartbeat(NoLevel, charging)

SpecLoops == Init /\ [][NextLoops]_vars

\* C28: while a run_task subprocess is executing the receive loop is at its
\* "async for", ready to take the next frame.
C28_ReceiveLoopNotBlockedByTask ==
    running > 0 => receive_pc = "waiting"

\* ==== save_tasks and a crash of the agent ================================
\* tasks_file is the last list written completely. Path.write_text opens
\* tasks.json for writing, which empties it, writes the JSON text and closes
\* the file.

\* load_tasks(): json.loads fails on an empty or cut-off text and the
\* except branch returns []
load_tasks == IF file_state = "complete" THEN tasks_file ELSE <<>>

\* the functions that rewrite the cache, applied to the list they load
CacheOps(file) ==
    {add_or_update_task(file, task) : task \in AgentDefs}
    \cup {cancel_task_local(file, task_id) : task_id \in CachedIds}
    \cup {remove_task(file, task_id) : task_id \in CachedIds}

\* save_tasks(tasks): write_text has opened the file
save_begin(new) ==
    /\ writing = <<>>
    /\ writing' = <<new>>
    /\ file_state' = "truncated"
    /\ tasks_file' = load_tasks
    /\ crashed' = <<>>
    /\ UNCHANGED <<runner, now, server_up, srv_cancelled, executions, skipped,
                   agent_pc>>
    /\ UNCHANGED not_cache_vars
    /\ UNCHANGED <<status, active_connections>>
    /\ UNCHANGED <<session_vars, push_vars, task_vars>>

\* a part of the text has reached the file
save_write ==
    /\ writing # <<>>
    /\ file_state = "truncated"
    /\ file_state' = "partial"
    /\ UNCHANGED <<writing, crashed>>
    /\ UNCHANGED agent_vars
    /\ UNCHANGED not_cache_vars
    /\ UNCHANGED <<status, active_connections>>
    /\ UNCHANGED <<session_vars, push_vars, task_vars>>

\* the whole text is written and the file closed
save_end ==
    /\ writing # <<>>
    /\ file_state' = "complete"
    /\ tasks_file' = writing[1]
    /\ writing' = <<>>
    /\ UNCHANGED crashed
    /\ UNCHANGED <<runner, now, server_up, srv_cancelled, executions, skipped,
                   agent_pc>>
    /\ UNCHANGED not_cache_vars
    /\ UNCHANGED <<status, active_connections>>
    /\ UNCHANGED <<session_vars, push_vars, task_vars>>

\* the agent process dies during the write and is started again
agent_crash ==
    /\ writing # <<>>
    /\ crashed' = <<[old |-> tasks_file, new |-> writing[1]]>>
    /\ writing' = <<>>
    /\ UNCHANGED file_state
    /\ UNCHANGED agent_vars
    /\ UNCHANGED not_cache_vars
    /\ UNCHANGED <<status, active_connections>>
    /\ UNCHANGED <<session_vars, push_vars, task_vars>>

NextCacheWrite ==
    \/ \E new \in CacheOps(load_tasks) : save_begin(new)
    \/ save_write
    \/ save_end
    \/ agent_crash

SpecCacheWrite == Init /\ [][NextCacheWrite]_vars

\* C29: after a crash during a cache write load_tasks returns the complete
\* old list or the complete new list.
C29_CacheWriteIsAtomic ==
    \A i \in DOMAIN crashed :
        load_tasks = crashed[i].old \/ load_tasks = crashed[i].new

\* ==== PUT /default of the policy routes ==================================
MaxInFlight == 2      \* requests between select and commit at a time

\* values a request body gives for checkin_plugged_seconds
PolicyBodies == {45, 90}

\* the default policy, and the policy of a device
PolicyTargets == {None, "d1"}

RowsOf(target) == {i \in DOMAIN policies : policies[i].device_id = target}
DefaultRows == RowsOf(None)

\* update_default and update_device_policy up to their first await: the
\* select of the rows of the target (device_id NULL for the default) has
\* been answered. With more than one such row scalar_one_or_none raises and
\* the request ends without a change.
policy_select(target, data) ==
    /\ Len(policy_req) < MaxInFlight
    /\ Cardinality(RowsOf(target)) <= 1
    /\ policy_req' = Append(policy_req,
                            [target |-> target,
                             found  |-> RowsOf(target) # {},
                             data   |-> data])
    /\ UNCHANGED policies
    /\ UNCHANGED agent_vars
    /\ UNCHANGED not_policy_db_vars
    /\ UNCHANGED <<status, active_connections>>
    /\ UNCHANGED <<session_vars, push_vars, task_vars>>

\* the rest of either route: without a row found a Policy of the target is
\* added, the fields of the body are set, and the commit writes the row.
\* unique=True on the nullable device_id rejects a second row of a device
\* (the commit raises and nothing is written) and does not reject a second
\* NULL.
policy_commit(i) ==
    /\ i \in DOMAIN policy_req
    /\ LET req == policy_req[i] IN
       policies' =
          IF req.found
          THEN [j \in DOMAIN policies |->
                  IF policies[j].device_id = req.target
                  THEN [policies[j] EXCEPT !.checkin_plugged_seconds = req.data]
                  ELSE policies[j]]
          ELSE IF req.target # None /\ RowsOf(req.target) # {}
          THEN policies
          ELSE Append(policies, [id |-> Len(policies) + 1,
                                 device_id |-> req.target,
                                 checkin_plugged_seconds |-> req.data])
    /\ policy_req' = [j \in 1..(Len(policy_req) - 1) |->
                        IF j < i THEN policy_req[j] ELSE policy_req[j + 1]]
    /\ UNCHANGED agent_vars
    /\ UNCHANGED not_policy_db_vars
    /\ UNCHANGED <<status, active_connections>>
    /\ UNCHANGED <<session_vars, push_vars, task_vars>>

NextPolicies ==
    \/ \E target \in PolicyTargets, data \in PolicyBodies :
          policy_select(target, data)
    \/ \E i \in 1..MaxInFlight : policy_commit(i)

SpecPolicies == Init /\ [][NextPolicies]_vars

\* C30: the policies table holds at most one row without a device.
C30_AtMostOneDefaultPolicy ==
    Cardinality(DefaultRows) <= 1

\* ==== a daily cron task in the cache =====================================
\* "m h * * *" with h:m at clock unit 1 of every day
DailyTask == CachedTask("t1", "cron", NoTime, 0, [at |-> 1, weekday |-> AnyDay])

\* scheduled_tasks of the check-in at clock value 0, before h:m of day 0
DailySeeds ==
    {<<DailyTask>>}
    \cup {<<DailyTask, d>> : d \in {a \in AgentDefs : a.task_id # DailyTask.task_id}}
    \cup {<<d, DailyTask>> : d \in {a \in AgentDefs : a.task_id # DailyTask.task_id}}

\* the runner of SpecInterval on a cache that holds the daily task
NextDaily ==
    \/ \E seed \in DailySeeds : main_checkin(seed)
    \/ \E d \in Durations : timed_runner_tick(d)
    \/ \E d \in Durations : timed_runner_finish(d)
    \/ clock_tick
    \/ server_outage

SpecDaily == Init /\ [][NextDaily]_vars

\* C31: at a tick of the runner at or after h:m a cron task of the cache
\* that is not cancelled and has not run yet is due.
C31_DailyCronBecomesDue ==
    (agent_pc = "running" /\ runner.pc = "sleeping" /\ now = timer) =>
        \A i \in DOMAIN tasks_file :
            LET task == tasks_file[i] IN
            (/\ task.trigger_type = "cron"
             /\ ~task.cancelled
             /\ task.last_run = NoTime
             /\ now >= task.cron_expression.at)
            => task_is_due(task, now)

\* ==== the choice of the server address ===================================
\* clock value up to which the selector is followed, and the steps of the
\* clock: exactly a week, and a week and a second
MaxSelTime == 30
SelSteps   == {WEEK, WEEK + 1}

\* one call of select_server_ip by ws_loop (which then connects to the
\* address) or by weekly_ip_retest (force = True)
Select(caller, local_ok, vpn_ok) ==
    LET force == caller = "weekly_ip_retest"
        r     == select_server_ip(state_file, force, network, now,
                                  local_ok, vpn_ok)
    IN /\ state_file' = r.file
       /\ selection' = <<[caller |-> caller, force |-> force, at |-> now,
                          net |-> network, local_ok |-> local_ok,
                          vpn_ok |-> vpn_ok,
                          before |-> state_file, ip |-> r.ip,
                          probed |-> r.probed, after |-> r.file]>>
       /\ reprobe_owed' = FALSE
       /\ UNCHANGED <<network, watcher_network, used_ip>>
       /\ UNCHANGED agent_vars
       /\ UNCHANGED not_selector_vars
       /\ UNCHANGED <<status, active_connections>>
       /\ UNCHANGED <<session_vars, push_vars, task_vars>>

\* ws_loop: the connection fails or is lost; the except branch empties
\* last_ip_test and the loop sleeps 30 s before it selects again
ws_loop_except ==
    /\ state_file' = state_set(state_file, "last_ip_test", NoTime)
    /\ reprobe_owed' = TRUE
    /\ UNCHANGED <<network, watcher_network, selection, used_ip>>
    /\ UNCHANGED agent_vars
    /\ UNCHANGED not_selector_vars
    /\ UNCHANGED <<status, active_connections>>
    /\ UNCHANGED <<session_vars, push_vars, task_vars>>

\* the device moves to another network
network_changes(net) ==
    /\ net # network
    /\ network' = net
    /\ UNCHANGED <<state_file, watcher_network, reprobe_owed, selection,
                   used_ip>>
    /\ UNCHANGED agent_vars
    /\ UNCHANGED not_selector_vars
    /\ UNCHANGED <<status, active_connections>>
    /\ UNCHANGED <<session_vars, push_vars, task_vars>>

\* the event tasks of the cache that are not cancelled and wait for a
\* network change
EventTasks(file) ==
    {i \in DOMAIN file : /\ file[i].trigger_type = "event"
                         /\ ~file[i].cancelled
                         /\ file[i].event_trigger = "network_change"}

\* one pass of event_task_watcher that finds another ssid than at its last
\* pass: active_ip is emptied and every such event task is executed, without
\* a pre-run check
event_task_watcher ==
    /\ network.ssid # watcher_network.ssid
    /\ watcher_network' = network
    /\ state_file' = state_set(state_file, "active_ip", "")
    /\ reprobe_owed' = TRUE
    /\ \A i \in EventTasks(tasks_file) : executions[tasks_file[i].task_id] < MaxRuns
    /\ executions' = [t \in DOMAIN executions |->
                        IF \E i \in EventTasks(tasks_file) : tasks_file[i].task_id = t
                        THEN executions[t] + 1 ELSE executions[t]]
    /\ UNCHANGED <<network, selection, used_ip>>
    /\ UNCHANGED <<tasks_file, runner, now, server_up, srv_cancelled, skipped,
                   agent_pc>>
    /\ UNCHANGED not_selector_vars
    /\ UNCHANGED <<status, active_connections>>
    /\ UNCHANGED <<session_vars, push_vars, task_vars>>

\* local_task_runner, before a pre-run check: the address it asks
pre_run_address ==
    /\ used_ip' = <<[by |-> "local_task_runner",
                     ip |-> state_get(state_file, "active_ip", SERVER_IP_LOCAL)]>>
    /\ UNCHANGED <<state_file, network, watcher_network, reprobe_owed,
                   selection>>
    /\ UNCHANGED agent_vars
    /\ UNCHANGED not_selector_vars
    /\ UNCHANGED <<status, active_connections>>
    /\ UNCHANGED <<session_vars, push_vars, task_vars>>

\* a week passes
time_passes(dt) ==
    /\ now + dt <= MaxSelTime
    /\ now' = now + dt
    /\ UNCHANGED <<tasks_file, runner, server_up, srv_cancelled, executions,
                   skipped, agent_pc>>
    /\ UNCHANGED unit_vars
    /\ UNCHANGED <<status, active_connections>>
    /\ UNCHANGED <<session_vars, push_vars, task_vars>>

NextSelector ==
    \/ \E caller \in {"ws_loop", "weekly_ip_retest"},
          local_ok \in BOOLEAN, vpn_ok \in BOOLEAN :
          Select(caller, local_ok, vpn_ok)
    \/ ws_loop_except
    \/ \E net \in Networks : network_changes(net)
    \/ event_task_watcher
    \/ \E dt \in SelSteps : time_passes(dt)

SpecSelector == Init /\ [][NextSelector]_vars

\* the addresses the agent talks to: ws_loop connects to the selected one,
\* local_task_runner asks the one in the state file
NextAddress ==
    \/ \E local_ok \in BOOLEAN, vpn_ok \in BOOLEAN :
          Select("ws_loop", local_ok, vpn_ok)
    \/ ws_loop_except
    \/ \E net \in Networks : network_changes(net)
    \/ event_task_watcher
    \/ pre_run_address

SpecAddress == Init /\ [][NextAddress]_vars

\* the selections made so far that were not forced
Unforced == {i \in DOMAIN selection : ~selection[i].force}

\* the persisted probe is less than 7 days old at the selection
ProbeIsFresh(s) ==
    LET last == state_get(s.before, "last_ip_test", NoTime)
    IN last # NoTime /\ s.at - last < WEEK

\* the network at the selection is the persisted one
FingerprintUnchanged(s) ==
    /\ "last_network" \in DOMAIN s.before
    /\ s.before["last_network"] = s.net

\* C32: the selector returns the cached address without probing exactly
\* when a cached active_ip exists, the last probe is less than 7 days old
\* and the network fingerprint equals the persisted one; with a different
\* fingerprint it probes
C32_CachedExactlyWhenFresh ==
    \A i \in Unforced :
        LET s == selection[i]
        IN ~s.probed <=> /\ state_get(s.before, "active_ip", "") # ""
                         /\ ProbeIsFresh(s)
                         /\ FingerprintUnchanged(s)

\* C33: a probing selector chooses the primary address whenever the primary
\* probe succeeds and the fallback only when the primary fails and the
\* fallback succeeds, and after a successful probe the state file holds the
\* chosen address, the time of the probe and the current network
C33_ProbePrefersPrimaryAndPersists ==
    \A i \in DOMAIN selection :
        LET s == selection[i]
        IN s.probed =>
             /\ s.local_ok => s.ip = SERVER_IP_LOCAL
             /\ (~s.local_ok /\ s.vpn_ok) => s.ip = SERVER_IP_VPN
             /\ (s.local_ok \/ s.vpn_ok) =>
                  /\ s.after["active_ip"] = s.ip
                  /\ s.after["last_ip_test"] = s.at
                  /\ s.after["last_network"] = s.net

\* the cached primary was probed more than a week ago, the primary is down
\* and the fallback is up: the fallback becomes the active address
C33_Witness ==
    /\ selection # <<>>
    /\ ~selection[1].force
    /\ selection[1].probed
    /\ state_get(selection[1].before, "active_ip", "") = SERVER_IP_LOCAL
    /\ selection[1].at - state_get(selection[1].before, "last_ip_test", NoTime) > WEEK
    /\ ~selection[1].local_ok
    /\ selection[1].vpn_ok
    /\ selection[1].after["active_ip"] = SERVER_IP_VPN
    /\ state_file = selection[1].after

\* C34: when both probes fail the selector returns the cached address, or
\* the primary when there is none, and the state file is as it was
C34_FailedProbeKeepsState ==
    \A i \in DOMAIN selection :
        LET s      == selection[i]
            cached == state_get(s.before, "active_ip", "")
        IN (s.probed /\ ~s.local_ok /\ ~s.vpn_ok) =>
             /\ s.ip = IF cached # "" THEN cached ELSE SERVER_IP_LOCAL
             /\ s.after = s.before

\* both probes failed with the fallback cached: the fallback is returned
C34_Witness ==
    /\ selection # <<>>
    /\ selection[1].probed
    /\ ~selection[1].local_ok
    /\ ~selection[1].vpn_ok
    /\ state_get(selection[1].before, "active_ip", "") = SERVER_IP_VPN
    /\ selection[1].ip = SERVER_IP_VPN

\* C35: the first selection after a WebSocket disconnect and the first one
\* after a network change the watcher has seen probe; they do not return
\* the cached address
C35_ReprobeAfterDisconnectOrChange ==
    [][(reprobe_owed /\ ~reprobe_owed') =>
          /\ selection' # <<>>
          /\ selection'[1].probed]_vars

\* a selection that was not forced found a cached address whose probe time
\* the disconnect had emptied, and probed
C35_Witness ==
    /\ selection # <<>>
    /\ ~selection[1].force
    /\ state_get(selection[1].before, "active_ip", "") # ""
    /\ "last_ip_test" \in DOMAIN selection[1].before
    /\ selection[1].before["last_ip_test"] = NoTime
    /\ selection[1].probed
    /\ ~reprobe_owed

\* the addresses configured in the agent
ConfiguredIps == {SERVER_IP_LOCAL, SERVER_IP_VPN}

\* C37: every address the agent uses, for the WebSocket and for the pre-run
\* check, is one of the two configured ones, also after a network change
\* has emptied active_ip
C37_UsedAddressIsConfigured ==
    /\ \A i \in DOMAIN selection :
          selection[i].caller = "ws_loop" => selection[i].ip \in ConfiguredIps
    /\ \A i \in DOMAIN used_ip : used_ip[i].ip \in ConfiguredIps

\* ==== push envelopes and the session registry ============================
\* C36: an envelope published for one device id is written only to the
\* connection registered under that id in active_connections, which is a
\* connection of that device; with no connection registered under the id
\* nothing is written
C36_PushOnlyToRegisteredSession ==
    [][\A k \in DOMAIN written' :
          (k \notin DOMAIN written /\ written'[k].target # "all") =>
             /\ \E i \in DOMAIN active_connections :
                   /\ active_connections[i].k = written'[k].target
                   /\ active_connections[i].v = written'[k].ws
             /\ path_device[written'[k].ws] = written'[k].target]_vars

\* an envelope for one device was written to its connection while a
\* connection of another device was registered and open
C36_Witness ==
    \E k \in DOMAIN written :
        /\ written[k].target \in Devices
        /\ path_device[written[k].ws] = written[k].target
        /\ \E i \in DOMAIN active_connections :
              /\ active_connections[i].k # written[k].target
              /\ ws_open[active_connections[i].v]

\* ==== the policy of the check-in answer ==================================
\* checkin_plugged_seconds of the answer when no Policy row is found
BUILTIN_PLUGGED == 30

\* the rows the check-in selects: the policy of the device and the default
CheckinRows(d) ==
    {i \in DOMAIN policies :
        policies[i].device_id = d \/ policies[i].device_id = None}

\* POST /api/agent/checkin: the Device row is committed, then the Policy
\* rows of the device and of the default are selected, devices first.
\* scalar_one_or_none raises on more than one row and the request ends with
\* status 500.
policy_checkin(d) ==
    /\ status' = [status EXCEPT ![d] = "online"]
    /\ checkin_reply' =
          <<[device_id |-> d, table |-> policies,
             ok |-> Cardinality(CheckinRows(d)) <= 1,
             plugged |-> IF Cardinality(CheckinRows(d)) = 1
                         THEN policies[CHOOSE i \in CheckinRows(d) : TRUE]
                                 .checkin_plugged_seconds
                         ELSE BUILTIN_PLUGGED]>>
    /\ UNCHANGED active_connections
    /\ UNCHANGED agent_vars
    /\ UNCHANGED not_checkin_policy_vars
    /\ UNCHANGED <<session_vars, push_vars, task_vars>>

NextCheckinPolicy ==
    \/ \E target \in PolicyTargets, data \in PolicyBodies :
          policy_select(target, data)
    \/ \E i \in 1..MaxInFlight : policy_commit(i)
    \/ \E d \in Devices : policy_checkin(d)

SpecCheckinPolicy == Init /\ [][NextCheckinPolicy]_vars

\* C38: a check-in is answered with a policy: the one of the device when
\* the table has it, else the default one, else the built-in values; also
\* when the table has both a device policy and a default
C38_CheckinAnswersWithPolicy ==
    \A i \in DOMAIN checkin_reply :
        LET r    == checkin_reply[i]
            own  == {j \in DOMAIN r.table : r.table[j].device_id = r.device_id}
            dflt == {j \in DOMAIN r.table : r.table[j].device_id = None}
        IN /\ r.ok
           /\ IF own # {}
              THEN \E j \in own : r.plugged = r.table[j].checkin_plugged_seconds
              ELSE IF dflt # {}
              THEN \E j \in dflt : r.plugged = r.table[j].checkin_plugged_seconds
              ELSE r.plugged = BUILTIN_PLUGGED

\* ==== upserts of the task cache ==========================================
\* C40: the cache holds at most one record per task id, and a record that
\* is in the cache before and after a step stays cancelled once it is
\* cancelled and, for an interval task, keeps a last_run once it has one;
\* schedule_task frames and check-in seedings are such steps
C40_UpsertKeepsCancelledAndLastRun ==
    /\ [](\A i, j \in DOMAIN tasks_file :
            tasks_file[i].task_id = tasks_file[j].task_id => i = j)
    /\ [][\A t \in CachedIds :
            (Cached(tasks_file, t) /\ Cached(tasks_file', t)) =>
               /\ Record(tasks_file, t).cancelled
                    => Record(tasks_file', t).cancelled
               /\ (/\ Record(tasks_file, t).trigger_type = "interval"
                   /\ Record(tasks_file, t).last_run # NoTime)
                    => Record(tasks_file', t).last_run # NoTime]_vars

\* ==== event tasks ========================================================
\* a task that runs on a network change, as schedule_task and the check-in
\* answer carry it
EventTask ==
    [task_id |-> "t1", trigger_type |-> "event", scheduled_at |-> NoTime,
     interval_seconds |-> 0, cron_expression |-> NoCron,
     event_trigger |-> "network_change", last_run |-> NoTime,
     cancelled |-> FALSE]

\* scheduled_tasks of the check-in
EventSeeds ==
    {<<EventTask>>}
    \cup {<<EventTask, d>> : d \in {a \in AgentDefs : a.task_id # EventTask.task_id}}
    \cup {<<d, EventTask>> : d \in {a \in AgentDefs : a.task_id # EventTask.task_id}}

\* the watcher on a cache that holds the event task, the networks the device
\* moves between, and the server with its cancel route
NextEvent ==
    \/ \E seed \in EventSeeds : main_checkin(seed)
    \/ \E net \in Networks : network_changes(net)
    \/ event_task_watcher
    \/ server_outage
    \/ \E task_id \in CachedIds : server_cancel(task_id)

SpecEvent == Init /\ [][NextEvent]_vars

\* C39: while the server is reachable and has the task as cancelled, the
\* agent starts no execution of an event task of its cache when the network
\* changes
C39_CancelledEventTaskNotStarted ==
    [][\A i \in DOMAIN tasks_file :
          (/\ tasks_file[i].trigger_type = "event"
           /\ tasks_file[i].task_id \in srv_cancelled
           /\ server_up)
          => ~Started(tasks_file[i].task_id)]_vars

====
